---- MODULE Spec2Model ----
(***************************************************************************)
(* State-machine model of the appwrite-mcp control plane: request          *)
(* validation, target resolution, plan construction and hashing, the       *)
(* destructive-operation policy with confirmation tokens, and per-target   *)
(* execution through an adapter.                                           *)
(***************************************************************************)
EXTENDS Integers, Sequences, FiniteSets, TLC

VARIABLES
  config,        \* options the control service was constructed with
  clock,         \* position of the process clock on the Instants timeline
  sequence,      \* number of ids handed out so far by randomId
  planStore,     \* PlanManager.planStore: plan_id -> PlanRecord
  auditLog,      \* the audit logger's records, oldest first
  idempotency,   \* IdempotencyRegistry.results: key -> TargetOperationResult
  tokens,        \* confirmation tokens handed out by confirm.issue
  adapterCalls,  \* every input the adapter was called with, oldest first
  running,       \* applies suspended on the adapter: slot -> execution state
  response,      \* the response returned by the latest finished invocation
  previewed,     \* history: plan_id -> what the preview that stored it was given
  probe          \* inputs and outputs of the pure functions under test

vars == <<config, clock, sequence, planStore, auditLog, idempotency, tokens,
          adapterCalls, running, response, previewed, probe>>

(***************************************************************************)
(* Optional values: <<>> is JavaScript's undefined, <<v>> a present value. *)
(***************************************************************************)
Absent == <<>>
Some(v) == <<v>>
IsPresent(o) == Len(o) > 0
Get(o) == o[1]

Range(s) == {s[i] : i \in 1..Len(s)}

SeqMap(Op(_), s) == [i \in 1..Len(s) |-> Op(s[i])]

RECURSIVE SeqFilter(_, _)
SeqFilter(Test(_), s) ==
  IF s = <<>> THEN <<>>
  ELSE IF Test(Head(s)) THEN <<Head(s)>> \o SeqFilter(Test, Tail(s))
       ELSE SeqFilter(Test, Tail(s))

RECURSIVE Flatten(_)
Flatten(ss) == IF ss = <<>> THEN <<>> ELSE Head(ss) \o Flatten(Tail(ss))

\* [...new Set(values)]: drops repeats, keeps the first occurrence's position.
RECURSIVE UniqueOrdered(_)
UniqueOrdered(s) ==
  IF s = <<>> THEN <<>>
  ELSE LET init == UniqueOrdered(SubSeq(s, 1, Len(s) - 1))
           last == s[Len(s)]
       IN IF last \in Range(init) THEN init ELSE Append(init, last)

IndexOf(s, x) == CHOOSE i \in 1..Len(s) : s[i] = x

(***************************************************************************)
(* JSON values.  An object is its list of <<key, value>> entries in        *)
(* insertion order, so that two orderings of the same keys are different   *)
(* inputs of the serializer.                                               *)
(***************************************************************************)
JStr(s) == [t |-> "str", s |-> s]
JNum(n) == [t |-> "num", n |-> n]
JBool(b) == [t |-> "bool", b |-> b]
JArr(items) == [t |-> "arr", items |-> items]
JObj(entries) == [t |-> "obj", entries |-> entries]
JUndefined == [t |-> "undefined"]

JOpt(o) == IF IsPresent(o) THEN JStr(Get(o)) ELSE JUndefined

\* Every object key of the model, in the order of Array.prototype.sort()
\* (UTF-16 code units): "_" sorts before the lower-case letters.
KeyOrder ==
  <<"__proto__", "a", "action", "actor", "apiKey", "b", "client_secret",
    "collection_id", "critical", "database_id", "destructive", "domain",
    "header", "idempotency_key", "meta", "mode", "name", "notes",
    "operation_id", "operations", "owner", "params", "policy", "project_id",
    "required_scopes", "target_projects", "token", "v">>

KeyBefore(e1, e2) == IndexOf(KeyOrder, e1[1]) < IndexOf(KeyOrder, e2[1])

\* normalize sorting the keys of the outermost object only.
normalizeOutermost(value) ==
  IF value.t = "obj" THEN JObj(SortSeq(value.entries, KeyBefore)) ELSE value

\* output[key] = ... creates the property key of output, except for the
\* key "__proto__": that assignment runs the setter of Object.prototype,
\* which changes the prototype of output (or does nothing) and creates no
\* property, so JSON.stringify finds no such member in output.
IsOwnAfterAssignment(e) == e[1] # "__proto__"

RECURSIVE normalize(_)
normalize(value) ==
  IF value.t = "arr"
    THEN JArr([i \in 1..Len(value.items) |-> normalize(value.items[i])])
  ELSE IF value.t = "obj"
    THEN JObj(SeqFilter(IsOwnAfterAssignment,
                SortSeq([i \in 1..Len(value.entries) |->
                           <<value.entries[i][1], normalize(value.entries[i][2])>>],
                        KeyBefore)))
  ELSE value

RECURSIVE JoinComma(_)
JoinComma(parts) ==
  IF parts = <<>> THEN ""
  ELSE IF Len(parts) = 1 THEN parts[1]
  ELSE parts[1] \o "," \o JoinComma(Tail(parts))

Quote(s) == "\"" \o s \o "\""

IsDefinedEntry(e) == e[2].t # "undefined"

\* JSON.stringify: a property whose value is undefined is left out of an
\* object, an undefined array element is written null.
RECURSIVE JsonStringify(_)
JsonStringify(value) ==
  CASE value.t = "str" -> Quote(value.s)
    [] value.t = "num" -> ToString(value.n)
    [] value.t = "bool" -> IF value.b THEN "true" ELSE "false"
    [] value.t = "undefined" -> "null"
    [] value.t = "arr" ->
         "[" \o JoinComma([i \in 1..Len(value.items) |->
                            JsonStringify(value.items[i])]) \o "]"
    [] value.t = "obj" ->
         LET kept == SeqFilter(IsDefinedEntry, value.entries)
         IN "{" \o JoinComma([i \in 1..Len(kept) |->
                   Quote(kept[i][1]) \o ":" \o JsonStringify(kept[i][2])]) \o "}"

canonicalStringify(value) == JsonStringify(normalize(value))

\* SHA-256 taken as collision free: the digest stands for its input.
createPlanHash(value) == "sha256(" \o canonicalStringify(value) \o ")"

(***************************************************************************)
(* Scope catalog.                                                          *)
(***************************************************************************)
Actions ==
  {"project.create", "project.delete", "database.list", "database.create",
   "database.upsert_collection", "database.delete_collection",
   "auth.users.list", "auth.users.create", "auth.users.update.email",
   "auth.users.update.name", "auth.users.update.status",
   "auth.users.update.password", "auth.users.update.phone",
   "auth.users.update.email_verification",
   "auth.users.update.phone_verification", "auth.users.update.mfa",
   "auth.users.update.labels", "auth.users.update.prefs", "auth.users.update",
   "function.list", "function.create", "function.update",
   "function.deployment.trigger", "function.execution.trigger",
   "function.execution.status"}

Domains == {"project", "database", "auth", "function"}

actionRequiredScopes(action) ==
  CASE action \in {"project.create", "project.delete"} -> <<"projects.write">>
    [] action = "database.list" -> <<"databases.read">>
    [] action \in {"database.create", "database.upsert_collection",
                   "database.delete_collection"} -> <<"databases.write">>
    [] action = "auth.users.list" -> <<"users.read">>
    [] action \in {"auth.users.create", "auth.users.update.email",
                   "auth.users.update.name", "auth.users.update.status",
                   "auth.users.update.password", "auth.users.update.phone",
                   "auth.users.update.email_verification",
                   "auth.users.update.phone_verification",
                   "auth.users.update.mfa", "auth.users.update.labels",
                   "auth.users.update.prefs", "auth.users.update"} ->
         <<"users.write">>
    [] action = "function.list" -> <<"functions.read">>
    [] action \in {"function.create", "function.update",
                   "function.deployment.trigger", "function.execution.trigger",
                   "function.execution.status"} -> <<"functions.write">>
    [] OTHER -> <<>>

OptSeq(o) == IF IsPresent(o) THEN Get(o) ELSE <<>>

\* The scopes a client declares taking the place of the catalog's.
declaredRequiredScopesFirst(operation) ==
  [operation EXCEPT !.required_scopes =
     Some(IF IsPresent(operation.required_scopes)
            THEN UniqueOrdered(OptSeq(operation.required_scopes))
            ELSE actionRequiredScopes(operation.action))]

withInferredRequiredScopesOne(operation) ==
  [operation EXCEPT !.required_scopes =
     Some(UniqueOrdered(actionRequiredScopes(operation.action)
                        \o OptSeq(operation.required_scopes)))]

withInferredRequiredScopes(operations) ==
  SeqMap(withInferredRequiredScopesOne, operations)

(***************************************************************************)
(* Errors.  A function of the code that throws is modelled as returning    *)
(* Fail(error) in place of Ok(value).                                      *)
(***************************************************************************)
Ok(v) == [ok |-> TRUE, value |-> v]
Fail(e) == [ok |-> FALSE, error |-> e]

\* A call that ends by throwing what is not an AppwriteMcpError.
Throw(e) == [ok |-> FALSE, thrown |-> e]
Throws(outcome) == "thrown" \in DOMAIN outcome
TypeError(message) == [type_error |-> message]

\* new AppwriteMcpError(code, message, options) with the constructor's
\* defaults spelled out by the caller.
AppwriteMcpError(code, message, target, operationId) ==
  [code |-> code, message |-> message, target |-> target,
   operation_id |-> operationId, retryable |-> FALSE,
   missing_scopes |-> Absent, supported_transports |-> Absent,
   remediation |-> Absent]

WithRemediation(e, text) == [e EXCEPT !.remediation = Some(text)]

(***************************************************************************)
(* Target resolver.                                                        *)
(***************************************************************************)
\* String.prototype.trim on the selector values of the model.
Trim(s) == IF s = " P_A " THEN "P_A" ELSE IF s = " " THEN "" ELSE s

AliasLookup(aliasMap, alias) ==
  IF alias \in DOMAIN aliasMap THEN Some(aliasMap[alias]) ELSE Absent

ResolvedTarget(index, source, projectId) ==
  [index |-> index, source |-> source, project_id |-> projectId]

\* One element of resolve()'s map callback; index counts from 0.
resolveTarget(cfg, target, index) ==
  IF IsPresent(target.project_id) /\ Get(target.project_id) # ""
    THEN Ok(ResolvedTarget(index, target, Get(target.project_id)))
  ELSE
    LET mapped == IF IsPresent(target.alias)
                    THEN AliasLookup(cfg.aliasMap, Get(target.alias))
                    ELSE Absent
    IN IF IsPresent(mapped) /\ Get(mapped) # ""
         THEN Ok(ResolvedTarget(index, target, Get(mapped)))
         ELSE Fail(AppwriteMcpError("TARGET_NOT_FOUND",
                     "Unable to resolve target at index " \o ToString(index),
                     IF IsPresent(target.alias) THEN Get(target.alias)
                     ELSE "index:" \o ToString(index), "*"))

resolve(cfg, targets) ==
  IF Len(targets) = 0
    THEN Fail(AppwriteMcpError("VALIDATION_ERROR", "targets[] is required",
                               "targets", "*"))
  ELSE
    LET each == [i \in 1..Len(targets) |-> resolveTarget(cfg, targets[i], i - 1)]
        bad == {i \in 1..Len(targets) : ~each[i].ok}
    IN IF bad # {}
         THEN each[CHOOSE i \in bad : \A j \in bad : i <= j]
         ELSE Ok([i \in 1..Len(targets) |-> each[i].value])

ensureNotEmpty(values, message) ==
  IF Len(values) > 0 THEN Ok(values)
  ELSE Fail(AppwriteMcpError("TARGET_NOT_FOUND", message, "targets", "*"))

NonEmptyString(s) == s # ""

selectorValues(selector) ==
  LET raw == (IF IsPresent(selector.value) THEN <<Get(selector.value)>> ELSE <<>>)
             \o OptSeq(selector.values)
      values == SeqFilter(NonEmptyString, SeqMap(Trim, raw))
  IN IF Len(values) > 0 THEN Ok(UniqueOrdered(values))
     ELSE Fail(AppwriteMcpError("VALIDATION_ERROR",
                 "target_selector requires value", "target_selector", "*"))

\* resolveFromAuto taking the first known project when several are known.
resolveFromAutoFirstKnown(cfg) ==
  IF Len(cfg.autoTargetProjectIds) > 0
    THEN Ok(UniqueOrdered(cfg.autoTargetProjectIds))
  ELSE IF Len(cfg.knownProjectIds) >= 1
    THEN Ok(<<cfg.knownProjectIds[1]>>)
  ELSE Fail(WithRemediation(
         AppwriteMcpError("TARGET_AMBIGUOUS",
           "auto target resolution requires selector or configured auto targets",
           "targets", "*"),
         "Provide targets[], provide target_selector, or configure defaults.auto_target_project_ids"))

resolveFromAuto(cfg) ==
  IF Len(cfg.autoTargetProjectIds) > 0
    THEN Ok(UniqueOrdered(cfg.autoTargetProjectIds))
  ELSE IF Len(cfg.knownProjectIds) = 1
    THEN Ok(<<cfg.knownProjectIds[1]>>)
  ELSE Fail(WithRemediation(
         AppwriteMcpError("TARGET_AMBIGUOUS",
           "auto target resolution requires selector or configured auto targets",
           "targets", "*"),
         "Provide targets[], provide target_selector, or configure defaults.auto_target_project_ids"))

resolveFromSelector(cfg, selector) ==
  LET mode == IF IsPresent(selector.mode) THEN Get(selector.mode) ELSE "auto"
      values == selectorValues(selector)
  IN IF mode = "project_id"
       THEN IF ~values.ok THEN values
            ELSE LET Known(v) == v \in Range(cfg.knownProjectIds)
                 IN ensureNotEmpty(SeqFilter(Known, values.value),
                      "project_id selector did not match known targets")
     ELSE IF mode = "alias"
       THEN IF ~values.ok THEN values
            ELSE LET Mapped(a) == AliasLookup(cfg.aliasMap, a)
                     Usable(o) == IsPresent(o) /\ Get(o) # ""
                     matched == SeqMap(Get, SeqFilter(Usable,
                                                      SeqMap(Mapped, values.value)))
                 IN ensureNotEmpty(UniqueOrdered(matched),
                      "alias selector did not match known targets")
     ELSE resolveFromAuto(cfg)

\* resolveRequest consulting the request's selector before targets[].
resolveRequestSelectorFirst(cfg, targets, targetSelector) ==
  IF Len(targets) > 0 /\ ~IsPresent(targetSelector)
    THEN LET r == resolve(cfg, targets)
         IN IF r.ok THEN Ok([resolvedTargets |-> r.value, source |-> "explicit"])
            ELSE r
  ELSE
    LET selector == IF IsPresent(targetSelector) THEN targetSelector
                    ELSE cfg.defaultTargetSelector
        selected == IF IsPresent(selector)
                      THEN resolveFromSelector(cfg, Get(selector))
                      ELSE resolveFromAuto(cfg)
    IN IF ~selected.ok THEN selected
       ELSE Ok([resolvedTargets |->
                  [i \in 1..Len(selected.value) |->
                     ResolvedTarget(i - 1,
                       [project_id |-> Some(selected.value[i]), alias |-> Absent],
                       selected.value[i])],
                source |-> IF IsPresent(selector) THEN "selector" ELSE "auto"])

resolveRequest(cfg, targets, targetSelector) ==
  IF Len(targets) > 0
    THEN LET r == resolve(cfg, targets)
         IN IF r.ok THEN Ok([resolvedTargets |-> r.value, source |-> "explicit"])
            ELSE r
  ELSE
    LET selector == IF IsPresent(targetSelector) THEN targetSelector
                    ELSE cfg.defaultTargetSelector
        selected == IF IsPresent(selector)
                      THEN resolveFromSelector(cfg, Get(selector))
                      ELSE resolveFromAuto(cfg)
    IN IF ~selected.ok THEN selected
       ELSE Ok([resolvedTargets |->
                  [i \in 1..Len(selected.value) |->
                     ResolvedTarget(i - 1,
                       [project_id |-> Some(selected.value[i]), alias |-> Absent],
                       selected.value[i])],
                source |-> IF IsPresent(selector) THEN "selector" ELSE "auto"])

(***************************************************************************)
(* Plan manager.                                                           *)
(***************************************************************************)
destructiveActions == {"project.delete", "database.delete_collection"}

\* Scope names of the model in the order of String.prototype.localeCompare.
ScopeOrder ==
  <<"custom.scope", "databases.read", "databases.write", "functions.read",
    "functions.write", "projects.write", "users.read", "users.write">>

ScopeBefore(a, b) == IndexOf(ScopeOrder, a) < IndexOf(ScopeOrder, b)

uniqueSorted(values) == SortSeq(UniqueOrdered(values), ScopeBefore)

toDomainFromAction(action) ==
  IF action \in {"project.create", "project.delete"} THEN "project"
  ELSE IF action \in {"database.list", "database.create",
                      "database.upsert_collection", "database.delete_collection"}
    THEN "database"
  ELSE IF action \in {"function.list", "function.create", "function.update",
                      "function.deployment.trigger",
                      "function.execution.trigger", "function.execution.status"}
    THEN "function"
  ELSE IF action \in Actions THEN "auth"
  ELSE "function"

\* toPlanDescriptor with a false override switching the flag off.
toPlanDescriptorOverridden(action, allowDestructiveOverride, allowCriticalOverride, targetCount, operationId) ==
  LET destructive == allowDestructiveOverride # Some(FALSE)
                     /\ (action \in destructiveActions
                         \/ allowDestructiveOverride = Some(TRUE))
      critical == allowCriticalOverride # Some(FALSE)
                  /\ (action = "project.delete"
                      \/ (destructive /\ targetCount >= 2)
                      \/ allowCriticalOverride = Some(TRUE))
  IN [operation_id |-> operationId, domain |-> toDomainFromAction(action),
      action |-> action, destructive |-> destructive, critical |-> critical]

toPlanDescriptor(action, allowDestructiveOverride, allowCriticalOverride, targetCount, operationId) ==
  LET inferredDestructive == action \in destructiveActions
      destructive == inferredDestructive \/ allowDestructiveOverride = Some(TRUE)
      inferredCritical == action = "project.delete"
                          \/ (destructive /\ targetCount >= 2)
      critical == inferredCritical \/ allowCriticalOverride = Some(TRUE)
  IN [operation_id |-> operationId, domain |-> toDomainFromAction(action),
      action |-> action, destructive |-> destructive, critical |-> critical]

\* toRiskLevel rating every destructive plan HIGH.
toRiskLevelDestructiveHigh(operations) ==
  IF \E i \in 1..Len(operations) :
       operations[i].critical \/ operations[i].destructive THEN "HIGH"
  ELSE "LOW"

toRiskLevel(operations) ==
  IF \E i \in 1..Len(operations) : operations[i].critical THEN "HIGH"
  ELSE IF \E i \in 1..Len(operations) : operations[i].destructive THEN "MEDIUM"
  ELSE "LOW"

JStrings(s) == JArr(SeqMap(JStr, s))

\* The entry of hashSeed.operations for one operation: the operation's own
\* properties, with destructive, critical and required_scopes overwritten.
hashSeedOperation(operation, descriptor) ==
  JObj(<< <<"operation_id", JStr(operation.operation_id)>>,
          <<"domain", JStr(operation.domain)>>,
          <<"action", JStr(operation.action)>>,
          <<"params", operation.params>>,
          <<"required_scopes",
            JStrings(uniqueSorted(OptSeq(operation.required_scopes)))>>,
          <<"destructive", JBool(descriptor.destructive)>>,
          <<"critical", JBool(descriptor.critical)>>,
          <<"idempotency_key", JOpt(operation.idempotency_key)>> >>)

\* hashSeed leaving the target projects out of the hashed content.
hashSeedWithoutTargets(request, targetProjects, descriptors) ==
  JObj(<< <<"actor", JStr(request.actor)>>,
          <<"mode", JStr(request.mode)>>,
          <<"operations",
            JArr([i \in 1..Len(request.operations) |->
                    hashSeedOperation(request.operations[i], descriptors[i])])>>,
          <<"policy", JStr("B")>> >>)

hashSeed(request, targetProjects, descriptors) ==
  JObj(<< <<"actor", JStr(request.actor)>>,
          <<"mode", JStr(request.mode)>>,
          <<"target_projects", JStrings(targetProjects)>>,
          <<"operations",
            JArr([i \in 1..Len(request.operations) |->
                    hashSeedOperation(request.operations[i], descriptors[i])])>>,
          <<"policy", JStr("B")>> >>)

IsDestructive(d) == d.destructive

ProjectIdOf(target) == target.project_id

RequiredScopesOf(operation) == OptSeq(operation.required_scopes)

\* buildPlan at time nowMs (milliseconds), randomId() returning id.
buildPlan(request, resolvedTargets, nowMs, id, planTtlSeconds) ==
  LET descriptors ==
        [i \in 1..Len(request.operations) |->
           toPlanDescriptor(request.operations[i].action,
                            request.operations[i].destructive,
                            request.operations[i].critical,
                            Len(resolvedTargets),
                            request.operations[i].operation_id)]
      targetProjects == SeqMap(ProjectIdOf, resolvedTargets)
  IN [plan_id |-> "plan_" \o id,
      plan_hash |-> createPlanHash(hashSeed(request, targetProjects, descriptors)),
      actor |-> request.actor,
      target_projects |-> targetProjects,
      operations |-> descriptors,
      required_scopes |->
        uniqueSorted(Flatten(SeqMap(RequiredScopesOf, request.operations))),
      destructive_count |-> Len(SeqFilter(IsDestructive, descriptors)),
      risk_level |-> toRiskLevel(descriptors),
      created_at |-> nowMs,
      expires_at |-> nowMs + planTtlSeconds * 1000]

PlanMismatch(message) == AppwriteMcpError("PLAN_MISMATCH", message, "plan", "*")

\* requireMatchingPlan accepting a plan at the instant it expires.
requireMatchingPlanAtExpiry(store, request, resolvedTargets, nowMs, id, planTtlSeconds) ==
  IF ~IsPresent(request.plan_id) \/ ~IsPresent(request.plan_hash)
    THEN Fail(PlanMismatch("apply requires plan_id and plan_hash")) @@ [ids |-> 0]
  ELSE IF Get(request.plan_id) \notin DOMAIN store
    THEN Fail(PlanMismatch("plan_id not found")) @@ [ids |-> 0]
  ELSE IF store[Get(request.plan_id)].expires_at < nowMs
    THEN Fail(PlanMismatch("plan has expired")) @@ [ids |-> 0]
  ELSE IF store[Get(request.plan_id)].plan_hash # Get(request.plan_hash)
    THEN Fail(PlanMismatch("plan_hash mismatch")) @@ [ids |-> 0]
  ELSE IF buildPlan([request EXCEPT !.mode = "preview"], resolvedTargets, nowMs,
                    id, planTtlSeconds).plan_hash
          # store[Get(request.plan_id)].plan_hash
    THEN Fail(PlanMismatch("request differs from preview")) @@ [ids |-> 1]
  ELSE Ok(store[Get(request.plan_id)]) @@ [ids |-> 1]

\* The result also tells how many ids the call drew from randomId: the
\* rebuilt plan draws one.
requireMatchingPlan(store, request, resolvedTargets, nowMs, id, planTtlSeconds) ==
  IF ~IsPresent(request.plan_id) \/ ~IsPresent(request.plan_hash)
     \/ request.plan_id = Some("") \/ request.plan_hash = Some("")
    THEN Fail(PlanMismatch("apply requires plan_id and plan_hash")) @@ [ids |-> 0]
  ELSE IF Get(request.plan_id) \notin DOMAIN store
    THEN Fail(PlanMismatch("plan_id not found")) @@ [ids |-> 0]
  ELSE
    LET existing == store[Get(request.plan_id)]
        rebuilt == buildPlan([request EXCEPT !.mode = "preview"],
                             resolvedTargets, nowMs, id, planTtlSeconds)
    IN IF existing.expires_at <= nowMs
         THEN Fail(PlanMismatch("plan has expired")) @@ [ids |-> 0]
       ELSE IF existing.plan_hash # Get(request.plan_hash)
         THEN Fail(PlanMismatch("plan_hash mismatch")) @@ [ids |-> 0]
       ELSE IF rebuilt.plan_hash # existing.plan_hash
         THEN Fail(PlanMismatch("request differs from preview")) @@ [ids |-> 1]
       ELSE Ok(existing) @@ [ids |-> 1]

(***************************************************************************)
(* Confirmation token service.  A token is the list of its "."-separated   *)
(* segments.  A segment is raw text, the base64url form of a JSON text, or *)
(* an HMAC-SHA256 digest; HMAC is taken as unforgeable, so a digest stands *)
(* for its key and message.                                                *)
(***************************************************************************)
RawSegment(text) == [raw |-> text]
toBase64Url(jsonValue) == [b64url |-> jsonValue]
Hmac(secret, message) == [hmac |-> secret, message |-> message]

IsEmptySegment(s) == s = RawSegment("")

\* JSON.parse(fromBase64Url(segment)): fails on text that is not JSON.
ParsePayload(segment) ==
  IF "b64url" \in DOMAIN segment THEN Ok(segment.b64url)
  ELSE Fail("SyntaxError")

issue(secret, planHash, expiresAtUnixSeconds) ==
  LET payloadEncoded ==
        toBase64Url([plan_hash |-> planHash, exp |-> expiresAtUnixSeconds])
  IN <<payloadEncoded, Hmac(secret, payloadEncoded)>>

VerificationFail(reason) == [ok |-> FALSE, reason |-> reason]

\* verify looking at the expiry before the plan hash.
verifyExpiryFirst(secret, token, expectedPlanHash, nowUnixSeconds) ==
  IF Len(token) < 2 \/ IsEmptySegment(token[1]) \/ IsEmptySegment(token[2])
    THEN VerificationFail("invalid")
  ELSE IF token[2] # Hmac(secret, token[1]) THEN VerificationFail("invalid")
  ELSE IF ~ParsePayload(token[1]).ok THEN VerificationFail("invalid")
  ELSE IF ParsePayload(token[1]).value.exp <= nowUnixSeconds
    THEN VerificationFail("expired")
  ELSE IF ParsePayload(token[1]).value.plan_hash # expectedPlanHash
    THEN VerificationFail("mismatch")
  ELSE [ok |-> TRUE]

verify(secret, token, expectedPlanHash, nowUnixSeconds) ==
  IF Len(token) < 2 \/ IsEmptySegment(token[1]) \/ IsEmptySegment(token[2])
    THEN VerificationFail("invalid")
  ELSE
    LET payloadEncoded == token[1]
        signature == token[2]
        payload == ParsePayload(payloadEncoded)
    IN IF signature # Hmac(secret, payloadEncoded)
         THEN VerificationFail("invalid")
       ELSE IF ~payload.ok THEN VerificationFail("invalid")
       ELSE IF payload.value.plan_hash # expectedPlanHash
         THEN VerificationFail("mismatch")
       ELSE IF payload.value.exp <= nowUnixSeconds
         THEN VerificationFail("expired")
       ELSE [ok |-> TRUE]

(***************************************************************************)
(* Redactor and audit log.                                                 *)
(***************************************************************************)
REDACTED == "[REDACTED]"

\* SECRET_KEY_PATTERN.test(key) for the member names of the model:
\* /(token|secret|api[_-]?key|password|credential|authorization)/i matches
\* anywhere in the name, in either case.
SecretKeys == {"api_key", "apiKey", "token", "client_secret"}

\* SECRET_VALUE_PATTERN.test(value) for the strings of the model:
\* /(sk_[a-z0-9]{8,}|bearer\s+[a-z0-9._-]+)/i matches anywhere in the string.
SecretStrings ==
  {"sk_abcdef123456", "bearer abcdef", "upstream leaked token bearer abcdef"}

redactStringNever(s) == s

redactString(s) == IF s \in SecretStrings THEN REDACTED ELSE s

RECURSIVE redactSecrets(_)
redactSecrets(value) ==
  CASE value.t = "str" -> JStr(redactString(value.s))
    [] value.t = "arr" ->
         JArr([i \in 1..Len(value.items) |-> redactSecrets(value.items[i])])
    [] value.t = "obj" ->
         JObj([i \in 1..Len(value.entries) |->
                IF value.entries[i][1] \in SecretKeys
                  THEN <<value.entries[i][1], JStr(REDACTED)>>
                  ELSE <<value.entries[i][1], redactSecrets(value.entries[i][2])>>])
    [] OTHER -> value

\* redactSecrets on a StandardError: none of its member names is a secret
\* key; its strings and the strings of its lists are scanned, retryable is
\* left as it is.
redactStrings(list) == [i \in 1..Len(list) |-> redactString(list[i])]

redactError(e) ==
  [e EXCEPT
     !.code = redactString(@), !.message = redactString(@),
     !.target = redactString(@), !.operation_id = redactString(@),
     !.missing_scopes = IF IsPresent(@) THEN Some(redactStrings(Get(@))) ELSE @,
     !.supported_transports =
        IF IsPresent(@) THEN Some(redactStrings(Get(@))) ELSE @,
     !.remediation = IF IsPresent(@) THEN Some(redactString(Get(@))) ELSE @]

toStandardError(error) == redactError(error)

\* details of an audit record: policy flags, an idempotency key, the
\* operation's params, or an error.
redactDetails(details) ==
  IF ~IsPresent(details) THEN details
  ELSE LET d == Get(details)
       IN CASE d.kind = "params" -> Some([d EXCEPT !.params = redactSecrets(@)])
            [] d.kind = "error" -> Some([d EXCEPT !.error = redactError(@)])
            [] d.kind = "idempotency" ->
                 Some([d EXCEPT !.idempotency_key = redactString(@)])
            [] OTHER -> details

AuditRecord(actor, timestamp, targetProject, operationId, outcome, correlationId, details) ==
  [actor |-> actor, timestamp |-> timestamp, target_project |-> targetProject,
   operation_id |-> operationId, outcome |-> outcome,
   correlation_id |-> correlationId, details |-> details]

\* InMemoryAuditLogger.append
auditAppend(log, record) ==
  Append(log, [record EXCEPT !.details = redactDetails(@)])

(***************************************************************************)
(* Request schemas.                                                        *)
(***************************************************************************)
ValidTarget(target) ==
  /\ IsPresent(target.project_id) => Get(target.project_id) # ""
  /\ IsPresent(target.alias) => Get(target.alias) # ""
  /\ IsPresent(target.project_id) \/ IsPresent(target.alias)

ValidOperation(operation) ==
  /\ operation.operation_id # ""
  /\ operation.domain \in Domains
  /\ operation.action \in Actions
  /\ IsPresent(operation.idempotency_key) => Get(operation.idempotency_key) # ""

ValidSelector(selector) ==
  /\ IsPresent(selector.mode) => Get(selector.mode) \in {"auto", "alias", "project_id"}
  /\ IsPresent(selector.value) => Get(selector.value) # ""
  /\ \A v \in Range(OptSeq(selector.values)) : v # ""

ZodError(message) == Fail([zod |-> message])

\* The first issue reported for the fields shared by preview and apply.
mutationSchemaBaseObject(raw) ==
  IF raw.actor = "" THEN ZodError("String must contain at least 1 character(s)")
  ELSE IF \E i \in 1..Len(raw.targets) : ~ValidTarget(raw.targets[i])
    THEN ZodError("target requires project_id or alias")
  ELSE IF IsPresent(raw.target_selector) /\ ~ValidSelector(Get(raw.target_selector))
    THEN ZodError("Invalid target_selector")
  ELSE IF Len(raw.operations) < 1
    THEN ZodError("Array must contain at least 1 element(s)")
  ELSE IF \E i \in 1..Len(raw.operations) : ~ValidOperation(raw.operations[i])
    THEN ZodError("Invalid operation")
  ELSE Ok(raw)

enforceTargetInput(raw) ==
  IF Len(raw.targets) = 0 /\ ~IsPresent(raw.target_selector)
    THEN ZodError("targets[] or target_selector is required")
  ELSE Ok(raw)

EmptyToken == <<RawSegment("")>>

\* The fields applySchema adds to the base object.
applySchemaExtension(raw) ==
  IF ~IsPresent(raw.plan_id) \/ ~IsPresent(raw.plan_hash)
    THEN ZodError("Required")
  ELSE IF raw.plan_id = Some("") \/ raw.plan_hash = Some("")
          \/ raw.confirmation_token = Some(EmptyToken)
    THEN ZodError("String must contain at least 1 character(s)")
  ELSE Ok(raw)

MutationRequest(raw, mode) ==
  [actor |-> raw.actor, mode |-> mode, targets |-> raw.targets,
   target_selector |-> raw.target_selector, operations |-> raw.operations,
   plan_id |-> IF mode = "apply" THEN raw.plan_id ELSE Absent,
   plan_hash |-> IF mode = "apply" THEN raw.plan_hash ELSE Absent,
   confirmation_token |-> IF mode = "apply" THEN raw.confirmation_token ELSE Absent,
   transport |-> raw.transport, credentials |-> raw.credentials]

parsePreviewRequest(raw) ==
  IF ~mutationSchemaBaseObject(raw).ok THEN mutationSchemaBaseObject(raw)
  ELSE IF ~enforceTargetInput(raw).ok THEN enforceTargetInput(raw)
  ELSE Ok(MutationRequest(raw, "preview"))

parseApplyRequest(raw) ==
  IF ~mutationSchemaBaseObject(raw).ok THEN mutationSchemaBaseObject(raw)
  ELSE IF ~applySchemaExtension(raw).ok THEN applySchemaExtension(raw)
  ELSE IF ~enforceTargetInput(raw).ok THEN enforceTargetInput(raw)
  ELSE Ok(MutationRequest(raw, "apply"))


(***************************************************************************)
(* Control service: the synchronous checks of preview and apply.           *)
(***************************************************************************)
randomId(n) == "id-" \o ToString(n)

createCorrelationId(n) == "corr_" \o randomId(n)

\* resolveTransport without the transport the process was started with.
resolveTransportOverrideOnly(cfg, override) ==
  LET candidate == IF IsPresent(override) THEN Get(override)
                   ELSE cfg.transportDefault
  IN IF candidate \in Range(cfg.supportedTransports) THEN Ok(candidate)
     ELSE Fail([WithRemediation(
                  AppwriteMcpError("CAPABILITY_UNAVAILABLE",
                    "Unsupported transport: " \o candidate, "transport", "*"),
                  "Use one of supported_transports and retry")
                EXCEPT !.supported_transports = Some(cfg.supportedTransports)])

resolveTransport(cfg, override) ==
  LET candidate == IF IsPresent(override) THEN Get(override)
                   ELSE IF IsPresent(cfg.requestedTransport)
                     THEN Get(cfg.requestedTransport)
                   ELSE cfg.transportDefault
  IN IF candidate \in Range(cfg.supportedTransports) THEN Ok(candidate)
     ELSE Fail([WithRemediation(
                  AppwriteMcpError("CAPABILITY_UNAVAILABLE",
                    "Unsupported transport: " \o candidate, "transport", "*"),
                  "Use one of supported_transports and retry")
                EXCEPT !.supported_transports = Some(cfg.supportedTransports)])

hasPerProjectAuthContexts(cfg) == DOMAIN cfg.projectAuthContexts # {}

Truthy(o) == IsPresent(o) /\ Get(o) # ""

ensureAuthContext(authContext) ==
  IF Truthy(authContext.endpoint) /\ Truthy(authContext.api_key) THEN Ok(authContext)
  ELSE Fail(WithRemediation(
         AppwriteMcpError("AUTH_CONTEXT_REQUIRED",
           "stdio mode requires auth context from environment",
           "auth_context", "*"),
         "Set APPWRITE_PROJECT_AUTH_FILE (or legacy endpoint/api key env) and retry"))

preflightScopes(requiredScopes, availableScopes) ==
  LET Missing(scope) == scope \notin Range(availableScopes)
      missingScopes == SeqFilter(Missing, requiredScopes)
  IN IF Len(missingScopes) = 0 THEN Ok(requiredScopes)
     ELSE Fail([WithRemediation(
                  AppwriteMcpError("MISSING_SCOPE", "required scopes are missing",
                                   "scope", "*"),
                  "Issue an API key with all required_scopes")
                EXCEPT !.missing_scopes = Some(missingScopes)])

ConfirmationError(code, message) ==
  AppwriteMcpError(code, message, "confirmation", "*")

\* enforceDestructivePolicy accepting any token that is present.
enforceDestructivePolicyAnyToken(cfg, plan, confirmationToken, nowMs) ==
  IF ~\E i \in 1..Len(plan.operations) : plan.operations[i].critical
    THEN Ok(plan)
  ELSE IF ~IsPresent(confirmationToken)
    THEN Fail(ConfirmationError("CONFIRM_REQUIRED",
                "critical destructive operation requires confirmation token"))
  ELSE Ok(plan)

enforceDestructivePolicy(cfg, plan, confirmationToken, nowMs) ==
  IF ~\E i \in 1..Len(plan.operations) : plan.operations[i].critical
    THEN Ok(plan)
  ELSE IF ~IsPresent(confirmationToken) \/ confirmationToken = Some(EmptyToken)
    THEN Fail(ConfirmationError("CONFIRM_REQUIRED",
                "critical destructive operation requires confirmation token"))
  ELSE
    LET verification == verify(cfg.confirmationSecret, Get(confirmationToken),
                               plan.plan_hash, nowMs \div 1000)
    IN IF verification.ok THEN Ok(plan)
       ELSE IF verification.reason = "expired"
         THEN Fail(ConfirmationError("CONFIRM_REQUIRED", "confirmation token expired"))
       ELSE Fail(ConfirmationError("INVALID_CONFIRM_TOKEN",
                                   "invalid confirmation token"))

\* The names every object literal inherits from Object.prototype: reading
\* one of them from an object that has no own member of the name gives the
\* inherited function (for __proto__, the prototype itself).
ObjectPrototypeKeys ==
  {"constructor", "toString", "toLocaleString", "valueOf", "hasOwnProperty",
   "isPrototypeOf", "propertyIsEnumerable", "__proto__", "__defineGetter__",
   "__defineSetter__", "__lookupGetter__", "__lookupSetter__"}

\* this.projectAuthContexts[targetProjectId] is a property read: for an
\* inherited name context is truthy and has no scopes, and spreading
\* context.scopes throws a TypeError.
resolveAuthContextForTarget(cfg, targetProjectId) ==
  IF hasPerProjectAuthContexts(cfg)
    THEN IF targetProjectId \in DOMAIN cfg.projectAuthContexts
           THEN Ok(cfg.projectAuthContexts[targetProjectId])
         ELSE IF targetProjectId \in ObjectPrototypeKeys
           THEN Throw(TypeError("context.scopes is not iterable"))
         ELSE Fail(WithRemediation(
                AppwriteMcpError("AUTH_CONTEXT_REQUIRED",
                  "project auth context is missing", targetProjectId, "*"),
                "Add this project_id entry to APPWRITE_PROJECT_AUTH_FILE and retry"))
    ELSE Ok(cfg.authContext)

normalizeRequestOperations(request) ==
  [request EXCEPT !.operations = withInferredRequiredScopes(@)]

\* mapError followed by toMutationErrorResponse.
mapErrorWithTarget(error, mode, correlationId, fallbackTarget) ==
  LET mapped == IF "zod" \in DOMAIN error
                  THEN AppwriteMcpError("VALIDATION_ERROR", error.zod,
                                        fallbackTarget, "*")
                ELSE IF "type_error" \in DOMAIN error
                  THEN [AppwriteMcpError("INTERNAL_ERROR", "unexpected internal error",
                                         fallbackTarget, "*")
                        EXCEPT !.retryable = TRUE]
                  ELSE error
  IN [correlation_id |-> correlationId, mode |-> mode, status |-> "FAILED",
      error |-> toStandardError(mapped)]

\* mapError with the default fallbackTarget.
mapError(error, mode, correlationId) ==
  mapErrorWithTarget(error, mode, correlationId, "global")

IsMutationError(body) == "error" \in DOMAIN body

\* applyChecks verifying the token against the stored plan that plan_id
\* names before the plan is matched.
applyChecksTokenFirst(cfg, store, raw, nowMs, nextId) ==
  LET authorize(normalizedRequest, resolved, plan) ==
        LET auth == ensureAuthContext(cfg.authContext)
            scopes == preflightScopes(plan.required_scopes, cfg.authContext.scopes)
        IN IF ~hasPerProjectAuthContexts(cfg) /\ ~auth.ok THEN auth @@ [ids |-> 1]
           ELSE IF ~hasPerProjectAuthContexts(cfg) /\ ~scopes.ok
             THEN scopes @@ [ids |-> 1]
           ELSE Ok([request |-> normalizedRequest,
                    resolvedTargets |-> resolved.resolvedTargets,
                    source |-> resolved.source,
                    plan |-> plan]) @@ [ids |-> 1]
      match(normalizedRequest, resolved, matched) ==
        IF ~matched.ok THEN matched
        ELSE authorize(normalizedRequest, resolved, matched.value)
      gate(request) ==
        IF IsPresent(request.plan_id) /\ Get(request.plan_id) \in DOMAIN store
          THEN enforceDestructivePolicy(cfg, store[Get(request.plan_id)],
                                        request.confirmation_token, nowMs)
          ELSE Ok(request)
      locate(request, transport, resolved) ==
        IF ~transport.ok THEN transport @@ [ids |-> 0]
        ELSE IF ~resolved.ok THEN resolved @@ [ids |-> 0]
        ELSE IF ~gate(request).ok THEN gate(request) @@ [ids |-> 0]
        ELSE match(normalizeRequestOperations(request), resolved.value,
                   requireMatchingPlan(store, normalizeRequestOperations(request),
                     resolved.value.resolvedTargets, nowMs, randomId(nextId),
                     cfg.planTtlSeconds))
      parse(parsed) ==
        IF ~parsed.ok THEN parsed @@ [ids |-> 0]
        ELSE locate(parsed.value, resolveTransport(cfg, parsed.value.transport),
                    resolveRequest(cfg, parsed.value.targets,
                                   parsed.value.target_selector))
  IN parse(parseApplyRequest(raw))

\* apply up to the call of mutationExecutor.execute: Fail(error) for the
\* first check that throws, else the arguments execute is called with.
\* ids counts the ids drawn from randomId after the correlation id.
applyChecks(cfg, store, raw, nowMs, nextId) ==
  LET authorize(normalizedRequest, resolved, plan) ==
        LET auth == ensureAuthContext(cfg.authContext)
            scopes == preflightScopes(plan.required_scopes, cfg.authContext.scopes)
            policy == enforceDestructivePolicy(cfg, plan,
                        normalizedRequest.confirmation_token, nowMs)
        IN IF ~hasPerProjectAuthContexts(cfg) /\ ~auth.ok THEN auth @@ [ids |-> 1]
           ELSE IF ~hasPerProjectAuthContexts(cfg) /\ ~scopes.ok
             THEN scopes @@ [ids |-> 1]
           ELSE IF ~policy.ok THEN policy @@ [ids |-> 1]
           ELSE Ok([request |-> normalizedRequest,
                    resolvedTargets |-> resolved.resolvedTargets,
                    source |-> resolved.source,
                    plan |-> plan]) @@ [ids |-> 1]
      match(normalizedRequest, resolved, matched) ==
        IF ~matched.ok THEN matched
        ELSE authorize(normalizedRequest, resolved, matched.value)
      locate(request, transport, resolved) ==
        IF ~transport.ok THEN transport @@ [ids |-> 0]
        ELSE IF ~resolved.ok THEN resolved @@ [ids |-> 0]
        ELSE match(normalizeRequestOperations(request), resolved.value,
                   requireMatchingPlan(store, normalizeRequestOperations(request),
                     resolved.value.resolvedTargets, nowMs, randomId(nextId),
                     cfg.planTtlSeconds))
      parse(parsed) ==
        IF ~parsed.ok THEN parsed @@ [ids |-> 0]
        ELSE locate(parsed.value, resolveTransport(cfg, parsed.value.transport),
                    resolveRequest(cfg, parsed.value.targets,
                                   parsed.value.target_selector))
  IN parse(parseApplyRequest(raw))

(***************************************************************************)
(* Mutation executor.  An apply runs synchronously from one adapter call   *)
(* to the next; x is the state of one execute() call together with the     *)
(* audit log, idempotency registry and adapter call history it works on.   *)
(***************************************************************************)
\* The options the control service constructs its MutationExecutor with:
\* no managementAuthContext is handed over.
\* The options the constructor hands to new MutationExecutor: the
\* management context of the service options is not among them.
MutationExecutorOptions(cfg) ==
  [projectManagementAvailable |-> cfg.projectManagementAvailable,
   managementAuthContext |-> Absent]

\* The callback preferring the credentials of the request.
resolveAuthContextFromPayload(cfg, request, targetProjectId) ==
  IF IsPresent(request.credentials) THEN Ok(Get(request.credentials))
  ELSE resolveAuthContextForTarget(cfg, targetProjectId)

\* The callback apply hands to execute; the apply request is in its scope.
resolveAuthContext(cfg, request, targetProjectId) ==
  resolveAuthContextForTarget(cfg, targetProjectId)

validateTargetAuthContext(authContext, targetProjectId) ==
  IF Truthy(authContext.endpoint) /\ Truthy(authContext.api_key) THEN Absent
  ELSE Some(WithRemediation(
         AppwriteMcpError("AUTH_CONTEXT_REQUIRED",
           "missing endpoint/api key for target", targetProjectId, "*"),
         "Configure endpoint and api_key for this project in APPWRITE_PROJECT_AUTH_FILE"))

IsProjectAction(action) == action \in {"project.create", "project.delete"}

resolveOperationAuthContext(options, operation, targetProjectId, targetAuthContext) ==
  IF ~IsProjectAction(operation.action) THEN Ok(targetAuthContext)
  ELSE IF ~options.projectManagementAvailable
    THEN Fail(WithRemediation(
           AppwriteMcpError("CAPABILITY_UNAVAILABLE",
             "project management channel is not configured",
             targetProjectId, operation.operation_id),
           "Enable project management channel before retry"))
  ELSE IF IsPresent(options.managementAuthContext)
    THEN Ok(Get(options.managementAuthContext))
  ELSE Fail(WithRemediation(
         AppwriteMcpError("CAPABILITY_UNAVAILABLE",
           "project management auth context is not configured",
           targetProjectId, operation.operation_id),
         "Configure management.api_key in APPWRITE_PROJECT_AUTH_FILE and retry"))

\* findMissingScopes reporting every required scope once one is missing.
findMissingScopesAllRequired(requiredScopes, availableScopes) ==
  IF Len(availableScopes) = 0 THEN <<>>
  ELSE IF \E i \in 1..Len(requiredScopes) :
            requiredScopes[i] \notin Range(availableScopes)
    THEN requiredScopes
  ELSE <<>>

findMissingScopes(requiredScopes, availableScopes) ==
  LET Missing(scope) == scope \notin Range(availableScopes)
  IN IF Len(availableScopes) = 0 THEN <<>>
     ELSE SeqFilter(Missing, requiredScopes)

\* buildIdempotencyKey leaving the target project out of the key.
buildIdempotencyKeyAnyTarget(targetProjectId, operation) ==
  IF ~Truthy(operation.idempotency_key) THEN Absent
  ELSE Some(operation.action \o ":" \o Get(operation.idempotency_key))

buildIdempotencyKey(targetProjectId, operation) ==
  IF ~Truthy(operation.idempotency_key) THEN Absent
  ELSE Some(targetProjectId \o ":" \o operation.action \o ":"
            \o Get(operation.idempotency_key))

FailedResult(operationId, error) ==
  [operation_id |-> operationId, status |-> "FAILED", data |-> Absent,
   error |-> Some(error)]

SuccessResult(operationId, data) ==
  [operation_id |-> operationId, status |-> "SUCCESS", data |-> Some(data),
   error |-> Absent]

\* logAndBuildFailure without the audit record.
logAndBuildFailureUnlogged(x, targetProjectId, operationId, error, nowMs) ==
  [x EXCEPT !.operationResults = Append(@, FailedResult(operationId, error))]

\* logAndBuildFailure: the failure is logged, then added to the results of
\* the target being executed.
logAndBuildFailure(x, targetProjectId, operationId, error, nowMs) ==
  [x EXCEPT
     !.auditLog = auditAppend(@, AuditRecord(x.request.actor, nowMs,
                    targetProjectId, operationId, "failed", x.correlationId,
                    Some([kind |-> "error", error |-> error]))),
     !.operationResults = Append(@, FailedResult(operationId, error))]

\* normalizeAndRedactError marking every error retryable.
normalizeAndRedactErrorRetryable(error, fallbackTarget, fallbackOperationId) ==
  redactError([error EXCEPT
    !.target = IF @ = "" THEN fallbackTarget ELSE @,
    !.operation_id = IF @ = "" THEN fallbackOperationId ELSE @,
    !.retryable = TRUE])

\* normalizeAndRedactError: the adapter's error with the target and the
\* operation filled in where it names none, then redacted.
normalizeAndRedactError(error, fallbackTarget, fallbackOperationId) ==
  redactError([error EXCEPT
    !.target = IF @ = "" THEN fallbackTarget ELSE @,
    !.operation_id = IF @ = "" THEN fallbackOperationId ELSE @])

\* buildTargetPreflightFailures: one failure per request operation.
RECURSIVE buildTargetPreflightFailures(_, _, _, _, _)
buildTargetPreflightFailures(x, targetProjectId, operations, error, nowMs) ==
  IF operations = <<>> THEN x
  ELSE buildTargetPreflightFailures(
         logAndBuildFailure(x, targetProjectId, Head(operations).operation_id,
           [toStandardError(error) EXCEPT
              !.target = targetProjectId,
              !.operation_id = Head(operations).operation_id],
           nowMs),
         targetProjectId, Tail(operations), error, nowMs)

TargetResult(target, status, operations) ==
  [target |-> target.source, project_id |-> target.project_id,
   status |-> status, operations |-> operations]

\* A target preflight failure that logs but pushes no target result.
failTargetUnreported(x, target, error, nowMs) ==
  [buildTargetPreflightFailures([x EXCEPT !.operationResults = <<>>],
     target.project_id, x.request.operations, error, nowMs)
   EXCEPT !.operationResults = <<>>, !.ti = @ + 1, !.oi = 0]

\* results.push({... status: "FAILED", operations: <preflight failures>}); continue
failTarget(x, target, error, nowMs) ==
  LET logged == buildTargetPreflightFailures([x EXCEPT !.operationResults = <<>>],
                  target.project_id, x.request.operations, error, nowMs)
  IN [logged EXCEPT
        !.results = Append(@, TargetResult(target, "FAILED", logged.operationResults)),
        !.operationResults = <<>>,
        !.ti = @ + 1, !.oi = 0]

\* The end of the loop body for one target.
closeTarget(x, target) ==
  [x EXCEPT
     !.results = Append(@, TargetResult(target,
        IF \A i \in 1..Len(x.operationResults) :
             x.operationResults[i].status = "SUCCESS"
          THEN "SUCCESS" ELSE "FAILED",
        x.operationResults)),
     !.operationResults = <<>>,
     !.ti = @ + 1, !.oi = 0]

RECURSIVE appendApplySuccess(_, _, _, _)
appendApplySuccess(log, x, targetProjects, nowMs) ==
  IF targetProjects = <<>> THEN log
  ELSE appendApplySuccess(
         auditAppend(log, AuditRecord(x.request.actor, nowMs, Head(targetProjects),
                       "apply", "success", x.correlationId, Absent)),
         x, Tail(targetProjects), nowMs)

\* execute after its loop over the targets.
finishExecute(x, nowMs) ==
  IF \E i \in 1..Len(x.results) : x.results[i].status = "FAILED"
    THEN [x EXCEPT !.pc = "done"]
    ELSE [x EXCEPT !.pc = "done",
            !.auditLog = appendApplySuccess(@, x, x.plan.target_projects, nowMs)]

AdapterInput(targetProjectId, operation, authContext, correlationId) ==
  [target_project_id |-> targetProjectId, operation |-> operation,
   auth_context |-> authContext, correlation_id |-> correlationId]

\* executeOperation up to the adapter call: either the operation is settled
\* without the adapter (failure or cached result) and the loop moves on, or
\* the adapter is called and the apply is suspended on it.
beforeDispatch(options, x, operation, targetProjectId, nowMs) ==
  LET effective == resolveOperationAuthContext(options, operation,
                     targetProjectId, x.authContext)
      authContextError == validateTargetAuthContext(effective.value, targetProjectId)
      missingScopes == findMissingScopes(OptSeq(operation.required_scopes),
                                         effective.value.scopes)
      idempotencyKey == buildIdempotencyKey(targetProjectId, operation)
      settled(y) == [y EXCEPT !.oi = @ + 1]
  IN IF ~effective.ok
       THEN settled(logAndBuildFailure(x, targetProjectId, operation.operation_id,
                      toStandardError(effective.error), nowMs))
     ELSE IF IsPresent(authContextError)
       THEN settled(logAndBuildFailure(x, targetProjectId, operation.operation_id,
                      toStandardError(Get(authContextError)), nowMs))
     ELSE IF Len(missingScopes) > 0
       THEN settled(logAndBuildFailure(x, targetProjectId, operation.operation_id,
                      toStandardError(
                        [WithRemediation(
                           AppwriteMcpError("MISSING_SCOPE",
                             "required scopes are missing for operation",
                             targetProjectId, operation.operation_id),
                           "Use an API key with required permissions and retry")
                         EXCEPT !.missing_scopes = Some(missingScopes)]),
                      nowMs))
     ELSE IF IsPresent(idempotencyKey) /\ Get(idempotencyKey) \in DOMAIN x.idempotency
       THEN settled([x EXCEPT
              !.auditLog = auditAppend(@, AuditRecord(x.request.actor, nowMs,
                  targetProjectId, operation.operation_id, "skipped",
                  x.correlationId,
                  Some([kind |-> "idempotency",
                        idempotency_key |-> Get(operation.idempotency_key)]))),
              !.operationResults = Append(@, x.idempotency[Get(idempotencyKey)])])
     ELSE [x EXCEPT
             !.pc = "awaiting",
             !.pending = Some(AdapterInput(targetProjectId, operation,
                                           effective.value, x.correlationId)),
             !.adapterCalls = Append(@, AdapterInput(targetProjectId, operation,
                                        effective.value, x.correlationId))]

\* executeOperation from the adapter's answer on, the loop going on with the
\* next target.
afterDispatchNextTarget(x, execution, nowMs) ==
  LET input == Get(x.pending)
      operation == input.operation
      successResult == SuccessResult(operation.operation_id,
                                     redactSecrets(execution.data))
      resumed == [x EXCEPT !.pc = "running", !.pending = Absent,
                           !.ti = @ + 1, !.oi = 0]
  IN IF ~execution.ok
       THEN logAndBuildFailure(resumed, input.target_project_id,
              operation.operation_id,
              normalizeAndRedactError(execution.error, input.target_project_id,
                                      operation.operation_id),
              nowMs)
       ELSE [resumed EXCEPT
               !.auditLog = auditAppend(@, AuditRecord(x.request.actor, nowMs,
                   input.target_project_id, operation.operation_id, "success",
                   x.correlationId,
                   Some([kind |-> "params", params |-> operation.params]))),
               !.operationResults = Append(@, successResult)]

\* executeOperation from the adapter's answer on.
afterDispatch(x, execution, nowMs) ==
  LET input == Get(x.pending)
      operation == input.operation
      targetProjectId == input.target_project_id
      idempotencyKey == buildIdempotencyKey(targetProjectId, operation)
      successResult == SuccessResult(operation.operation_id,
                                     redactSecrets(execution.data))
      resumed == [x EXCEPT !.pc = "running", !.pending = Absent, !.oi = @ + 1]
  IN IF ~execution.ok
       THEN logAndBuildFailure(resumed, targetProjectId, operation.operation_id,
              normalizeAndRedactError(execution.error, targetProjectId,
                                      operation.operation_id),
              nowMs)
       ELSE [resumed EXCEPT
               !.idempotency = IF IsPresent(idempotencyKey)
                                 THEN (Get(idempotencyKey) :> successResult) @@ @
                                 ELSE @,
               !.auditLog = auditAppend(@, AuditRecord(x.request.actor, nowMs,
                   targetProjectId, operation.operation_id, "success",
                   x.correlationId,
                   Some([kind |-> "params", params |-> operation.params]))),
               !.operationResults = Append(@, successResult)]

\* The loops of execute, run until the adapter is called or the targets are
\* exhausted.  oi = 0 marks the top of the loop body for target ti.
RECURSIVE execute(_, _, _)
execute(cfg, x, nowMs) ==
  IF x.ti > Len(x.resolvedTargets) THEN finishExecute(x, nowMs)
  ELSE
    LET target == x.resolvedTargets[x.ti]
        authContext == resolveAuthContext(cfg, x.request, target.project_id)
        authContextError == validateTargetAuthContext(authContext.value,
                                                      target.project_id)
    IN IF x.oi = 0
         THEN IF Throws(authContext)
                THEN [x EXCEPT !.pc = "thrown"] @@ [thrown |-> authContext.thrown]
              ELSE IF ~authContext.ok
                THEN execute(cfg, failTarget(x, target, authContext.error, nowMs), nowMs)
              ELSE IF IsPresent(authContextError)
                THEN execute(cfg, failTarget(x, target, Get(authContextError), nowMs),
                             nowMs)
              ELSE execute(cfg, [x EXCEPT !.authContext = authContext.value,
                                          !.oi = 1, !.operationResults = <<>>], nowMs)
       ELSE IF x.oi > Len(x.request.operations)
         THEN execute(cfg, closeTarget(x, target), nowMs)
       ELSE
         LET stepped == beforeDispatch(MutationExecutorOptions(cfg), x,
                          x.request.operations[x.oi], target.project_id, nowMs)
         IN IF stepped.pc = "awaiting" THEN stepped
            ELSE execute(cfg, stepped, nowMs)

\* toTopLevelStatus reporting FAILED as soon as one target failed.
toTopLevelStatusAnyFailure(results) ==
  IF \E i \in 1..Len(results) : results[i].status # "SUCCESS" THEN "FAILED"
  ELSE "SUCCESS"

toTopLevelStatus(results) ==
  LET successCount == Cardinality({i \in 1..Len(results) :
                                     results[i].status = "SUCCESS"})
      failureCount == Len(results) - successCount
  IN IF successCount > 0 /\ failureCount > 0 THEN "PARTIAL_SUCCESS"
     ELSE IF failureCount > 0 THEN "FAILED"
     ELSE "SUCCESS"

ApplyResponse(x) ==
  [correlation_id |-> x.correlationId, mode |-> "apply",
   status |-> toTopLevelStatus(x.results),
   plan_id |-> x.plan.plan_id, plan_hash |-> x.plan.plan_hash,
   target_results |-> x.results,
   destructive_count |-> x.plan.destructive_count,
   risk_level |-> x.plan.risk_level]

PreviewResponse(plan, correlationId) ==
  [correlation_id |-> correlationId, mode |-> "preview", status |-> "SUCCESS",
   plan_id |-> plan.plan_id, plan_hash |-> plan.plan_hash,
   target_projects |-> plan.target_projects, operations |-> plan.operations,
   destructive_count |-> plan.destructive_count, risk_level |-> plan.risk_level,
   required_scopes |-> plan.required_scopes]

\* logPlanPreview: one planned record per target and operation of the plan.
RECURSIVE logPlanPreview(_, _, _, _, _, _, _)
logPlanPreview(log, plan, actor, correlationId, nowMs, t, o) ==
  IF t > Len(plan.target_projects) THEN log
  ELSE IF o > Len(plan.operations)
    THEN logPlanPreview(log, plan, actor, correlationId, nowMs, t + 1, 1)
  ELSE logPlanPreview(
         auditAppend(log, AuditRecord(actor, nowMs, plan.target_projects[t],
           plan.operations[o].operation_id, "planned", correlationId,
           Some([kind |-> "policy",
                 destructive |-> plan.operations[o].destructive,
                 critical |-> plan.operations[o].critical]))),
         plan, actor, correlationId, nowMs, t, o + 1)

(***************************************************************************)
(* Bounds and the inputs the environment draws from.                       *)
(***************************************************************************)
MaxSequence == 5       \* ids randomId hands out in one run
MaxPlans == 2          \* previews stored in one run
MaxTokens == 1         \* confirmation tokens issued in one run

\* The instants (milliseconds) at which the process clock is read.
Instants == <<0, 29999, 30000>>

now == Instants[clock]

\* planTtlSeconds the service of the model is constructed with (seconds).
PlanTtlSeconds == 30
DefaultTokenTtlSeconds == 300
MinTokenTtlSeconds == 30

AllScopes ==
  <<"databases.write", "users.read", "users.write", "functions.write",
    "projects.write">>

AuthContext(endpoint, apiKey, scopes) ==
  [endpoint |-> endpoint, api_key |-> apiKey, scopes |-> scopes]

FallbackAuth ==
  AuthContext(Some("https://example.appwrite.test/v1"), Some("sk_test_key"), AllScopes)

FileAuthA ==
  AuthContext(Some("https://file-endpoint.example/v1"), Some("sk_from_file"),
              <<"databases.write">>)

NoProjectAuth == [p \in {} |-> FallbackAuth]

\* The management context of the auth file.
ManagementAuth ==
  AuthContext(Some("https://mgmt.example/v1"), Some("sk_management"),
              <<"projects.write">>)

ServiceOptions(authContext, projectAuthContexts, management) ==
  [authContext |-> authContext,
   projectAuthContexts |-> projectAuthContexts,
   confirmationSecret |-> "test-confirmation-secret",
   aliasMap |-> ("prod" :> "P_A"),
   knownProjectIds |-> <<>>,
   autoTargetProjectIds |-> <<>>,
   defaultTargetSelector |-> Absent,
   transportDefault |-> "stdio",
   supportedTransports |-> <<"stdio">>,
   requestedTransport |-> Absent,
   projectManagementAvailable |-> management,
   managementAuthContext |-> IF management THEN Some(ManagementAuth) ELSE Absent,
   planTtlSeconds |-> PlanTtlSeconds]

\* The configurations the service is constructed with: a complete fallback
\* context; none at all; a per-project map that knows P_A only.
Configs ==
  {ServiceOptions(FallbackAuth, NoProjectAuth, TRUE),
   ServiceOptions(AuthContext(Absent, Absent, AllScopes), NoProjectAuth, TRUE),
   ServiceOptions(FallbackAuth, ("P_A" :> FileAuthA), FALSE)}

ConfiguredAuthContexts(cfg) ==
  {cfg.authContext} \cup {cfg.projectAuthContexts[p] : p \in DOMAIN cfg.projectAuthContexts}

Target(projectId) == [project_id |-> Some(projectId), alias |-> Absent]
AliasTarget(alias) == [project_id |-> Absent, alias |-> Some(alias)]

MainDbParams ==
  JObj(<< <<"database_id", JStr("db-main")>>, <<"name", JStr("Main DB")>>,
          <<"meta", JObj(<<>>)>> >>)

\* params with a member put into every empty object of params["meta"],
\* under the key "__proto__" (an own property of an object JSON.parse
\* returns).
HiddenMember(e) ==
  IF e[1] = "meta" /\ e[2] = JObj(<<>>)
    THEN <<"meta", JObj(<< <<"__proto__", JObj(<< <<"name", JStr("x")>> >>)>> >>)>>
    ELSE e

WithHiddenMember(params) == JObj(SeqMap(HiddenMember, params.entries))

Operation(operationId, domain, action, params) ==
  [operation_id |-> operationId, domain |-> domain, action |-> action,
   params |-> params, required_scopes |-> Absent, destructive |-> Absent,
   critical |-> Absent, idempotency_key |-> Absent]

OpCreate ==
  [Operation("op-1", "database", "database.create", MainDbParams)
   EXCEPT !.required_scopes = Some(<<"databases.write">>)]

OpDeleteCollection ==
  [Operation("op-2", "database", "database.delete_collection",
             JObj(<< <<"database_id", JStr("db-main")>>,
                     <<"collection_id", JStr("legacy")>> >>))
   EXCEPT !.destructive = Some(FALSE)]

OpProjectDelete ==
  [Operation("op-3", "project", "project.delete",
             JObj(<< <<"project_id", JStr("P_A")>> >>))
   EXCEPT !.destructive = Some(FALSE), !.critical = Some(FALSE)]

RawInput(actor, targets, operations) ==
  [actor |-> actor, targets |-> targets, target_selector |-> Absent,
   operations |-> operations, transport |-> Absent, credentials |-> Absent,
   plan_id |-> Absent, plan_hash |-> Absent, confirmation_token |-> Absent]

ReqCreateBoth == RawInput("tester", <<Target("P_A"), Target("P_B")>>, <<OpCreate>>)
ReqDeleteOne == RawInput("tester", <<Target("P_A")>>, <<OpDeleteCollection>>)
ReqDeleteBoth ==
  RawInput("tester", <<AliasTarget("prod"), Target("P_B")>>, <<OpDeleteCollection>>)
ReqProjectDelete == RawInput("tester", <<Target("P_A")>>, <<OpProjectDelete>>)

\* Requests a preview accepts.
OpDeleteArchive ==
  Operation("op-4", "database", "database.delete_collection",
            JObj(<< <<"database_id", JStr("db-main")>>,
                    <<"collection_id", JStr("archive")>> >>))

\* Two destructive operations and one that is not, for one target.
ReqDeleteTwo ==
  RawInput("tester", <<Target("P_A")>>, <<OpDeleteCollection, OpCreate, OpDeleteArchive>>)

PreviewPool ==
  {ReqCreateBoth, ReqDeleteOne, ReqDeleteBoth, ReqProjectDelete, ReqDeleteTwo}

\* Requests rejected before a plan is built.
RejectedPool ==
  {RawInput("tester", <<>>, <<OpCreate>>),
   RawInput("tester", <<AliasTarget("nowhere")>>, <<OpCreate>>)}

\* A previewed request changed in one place between preview and apply.
Tampered(raw) ==
  {[raw EXCEPT !.actor = "mallory"],
   [raw EXCEPT !.targets = <<Target("P_B"), Target("P_A")>>],
   [raw EXCEPT !.targets = <<Target("P_B")>>],
   [raw EXCEPT !.operations[1].params =
      JObj(<< <<"database_id", JStr("db-other")>>, <<"name", JStr("Main DB")>> >>)],
   [raw EXCEPT !.operations[1].params = WithHiddenMember(@)],
   [raw EXCEPT !.operations[1].idempotency_key = Some("k1")],
   [raw EXCEPT !.operations[1].operation_id = "op-9"],
   [raw EXCEPT !.operations[1].required_scopes = Some(<<"custom.scope">>)],
   [raw EXCEPT !.operations[1].critical = Some(TRUE)],
   [raw EXCEPT !.operations = @ \o <<OpCreate>>]}

\* A previewed request written down differently: params keys in another
\* order, the catalog scope of the action declared twice.
Rewritten(raw) ==
  {[raw EXCEPT !.operations[1].params =
      JObj([i \in 1..Len(@.entries) |-> @.entries[Len(@.entries) + 1 - i]])],
   [raw EXCEPT !.operations[1].required_scopes =
      Some(OptSeq(@) \o actionRequiredScopes(raw.operations[1].action)
                    \o actionRequiredScopes(raw.operations[1].action))]}

PayloadCredentials ==
  [endpoint |-> Some("https://payload-endpoint.example/v1"),
   api_key |-> Some("payload-secret-key"), scopes |-> <<>>]

TamperedHash(planHash) == planHash \o "-tampered"

\* Tokens a client can submit besides the issued ones: text without a
\* signature, an issued payload with a made-up or a foreign-key signature,
\* and a self-made payload signed with a foreign key.
ForgedTokens(issued, planHashes) ==
  {<<RawSegment("garbage")>>}
    \cup {<<t[1], RawSegment("c2ln")>> : t \in issued}
    \cup {<<t[1], Hmac("attacker-secret", t[1])>> : t \in issued}
    \cup {issue("attacker-secret", h, 7200) : h \in planHashes}


(***************************************************************************)
(* The tools of the control service as functions of the service state w    *)
(* (ids handed out, plan store, audit log, idempotency registry, adapter   *)
(* call history).  Each yields the state after the invocation has run to   *)
(* its return or to its next adapter call, the suspended execution if any, *)
(* and the response body if it returned.                                   *)
(***************************************************************************)
Idle == [pc |-> "idle"]

\* A return that writes the response to the audit log.
ReturnedAudited(w, body) ==
  [w |-> [w EXCEPT !.auditLog = Append(@, body)], run |-> Idle, body |-> Some(body)]

Returned(w, body) == [w |-> w, run |-> Idle, body |-> Some(body)]

preview(cfg, w, raw, nowMs) ==
  LET correlationId == createCorrelationId(w.sequence + 1)
      failed(error) == Returned([w EXCEPT !.sequence = @ + 1],
                                mapError(error, "preview", correlationId))
      store(actor, plan) ==
        Returned(
          [w EXCEPT !.sequence = @ + 2,
                    !.planStore = (plan.plan_id :> plan) @@ @,
                    !.auditLog = logPlanPreview(@, plan, actor, correlationId,
                                                nowMs, 1, 1)],
          PreviewResponse(plan, correlationId))
      locate(request, transport, resolved) ==
        IF ~transport.ok THEN failed(transport.error)
        ELSE IF ~resolved.ok THEN failed(resolved.error)
        ELSE store(request.actor,
                   buildPlan(normalizeRequestOperations(request),
                             resolved.value.resolvedTargets, nowMs,
                             randomId(w.sequence + 2), cfg.planTtlSeconds))
      parse(parsed) ==
        IF ~parsed.ok THEN failed(parsed.error)
        ELSE locate(parsed.value, resolveTransport(cfg, parsed.value.transport),
                    resolveRequest(cfg, parsed.value.targets,
                                   parsed.value.target_selector))
  IN parse(parsePreviewRequest(raw))

\* settle dropping the plan of an apply that returned from the plan store.
settleConsuming(w, x) ==
  [w |-> [w EXCEPT !.auditLog = x.auditLog, !.idempotency = x.idempotency,
                   !.adapterCalls = x.adapterCalls,
                   !.planStore = IF x.pc = "done"
                                   THEN [p \in DOMAIN @ \ {x.plan.plan_id} |-> @[p]]
                                   ELSE @],
   run |-> IF x.pc \in {"done", "thrown"} THEN Idle
           ELSE [x EXCEPT !.auditLog = <<>>, !.idempotency = <<>>,
                          !.adapterCalls = <<>>],
   body |-> IF x.pc = "done" THEN Some(ApplyResponse(x))
           ELSE IF x.pc = "thrown"
             THEN Some(mapError(x.thrown, "apply", x.correlationId))
           ELSE Absent]

\* What execute leaves behind: the shared state it worked on goes back to
\* the service; the apply either returns or stays suspended on the adapter.
settle(w, x) ==
  [w |-> [w EXCEPT !.auditLog = x.auditLog, !.idempotency = x.idempotency,
                   !.adapterCalls = x.adapterCalls],
   run |-> IF x.pc \in {"done", "thrown"} THEN Idle
           ELSE [x EXCEPT !.auditLog = <<>>, !.idempotency = <<>>,
                          !.adapterCalls = <<>>],
   body |-> IF x.pc = "done" THEN Some(ApplyResponse(x))
           ELSE IF x.pc = "thrown"
             THEN Some(mapError(x.thrown, "apply", x.correlationId))
           ELSE Absent]

apply(cfg, w, raw, nowMs) ==
  LET correlationId == createCorrelationId(w.sequence + 1)
      start(checks, drawn) ==
        IF ~checks.ok
          THEN Returned(drawn, mapError(checks.error, "apply", correlationId))
          ELSE settle(drawn,
                 execute(cfg,
                   [pc |-> "running",
                    request |-> checks.value.request,
                    resolvedTargets |-> checks.value.resolvedTargets,
                    source |-> checks.value.source,
                    plan |-> checks.value.plan,
                    correlationId |-> correlationId,
                    ti |-> 1, oi |-> 0,
                    authContext |-> cfg.authContext,
                    pending |-> Absent,
                    results |-> <<>>, operationResults |-> <<>>,
                    auditLog |-> w.auditLog, idempotency |-> w.idempotency,
                    adapterCalls |-> w.adapterCalls],
                   nowMs))
      draw(checks) == start(checks, [w EXCEPT !.sequence = @ + 1 + checks.ids])
  IN draw(applyChecks(cfg, w.planStore, raw, nowMs, w.sequence + 2))

\* The adapter answers the call an apply is suspended on.
resume(cfg, w, run, execution, nowMs) ==
  settle(w, execute(cfg,
              afterDispatch([run EXCEPT !.auditLog = w.auditLog,
                                        !.idempotency = w.idempotency,
                                        !.adapterCalls = w.adapterCalls],
                            execution, nowMs),
              nowMs))

MaxTokenTtlSeconds == 7200

parseIssueConfirmationInput(raw) ==
  IF raw.plan_hash = "" THEN ZodError("String must contain at least 1 character(s)")
  ELSE IF IsPresent(raw.ttl_seconds) /\ Get(raw.ttl_seconds) < MinTokenTtlSeconds
    THEN ZodError("Number must be greater than or equal to 30")
  ELSE IF IsPresent(raw.ttl_seconds) /\ Get(raw.ttl_seconds) > MaxTokenTtlSeconds
    THEN ZodError("Number must be less than or equal to 7200")
  ELSE Ok(raw)

issueConfirmationToken(cfg, w, raw, nowMs) ==
  LET correlationId == createCorrelationId(w.sequence + 1)
      parsed == parseIssueConfirmationInput(raw)
      ttl == IF IsPresent(raw.ttl_seconds) THEN Get(raw.ttl_seconds)
             ELSE DefaultTokenTtlSeconds
      expiresAtMs == nowMs + ttl * 1000
      drawn == [w EXCEPT !.sequence = @ + 1]
  IN IF ~parsed.ok
       THEN Returned(drawn, [correlation_id |-> correlationId, status |-> "FAILED",
                             error |-> mapError(parsed.error, "preview",
                                                correlationId).error])
       ELSE Returned(drawn,
              [correlation_id |-> correlationId, status |-> "SUCCESS",
               token |-> issue(cfg.confirmationSecret, raw.plan_hash,
                               expiresAtMs \div 1000),
               expires_at |-> expiresAtMs])


(***************************************************************************)
(* What a request says, apart from how it is written down: a JSON object   *)
(* is its set of members, required_scopes is a set.                        *)
(***************************************************************************)
RECURSIVE Meaning(_)
Meaning(value) ==
  CASE value.t = "obj" ->
         [members |-> {<<value.entries[i][1], Meaning(value.entries[i][2])>> :
                         i \in {j \in 1..Len(value.entries) :
                                  IsDefinedEntry(value.entries[j])}}]
    [] value.t = "arr" ->
         [elements |-> [i \in 1..Len(value.items) |-> Meaning(value.items[i])]]
    [] OTHER -> value

\* The actor, resolved targets and normalized operations of a request.
Content(request, resolvedTargets) ==
  [actor |-> request.actor,
   target_projects |-> SeqMap(ProjectIdOf, resolvedTargets),
   operations |->
     [i \in 1..Len(request.operations) |->
        LET operation == request.operations[i]
            descriptor == toPlanDescriptor(operation.action, operation.destructive,
                            operation.critical, Len(resolvedTargets),
                            operation.operation_id)
        IN [operation_id |-> operation.operation_id,
            domain |-> operation.domain,
            action |-> operation.action,
            params |-> Meaning(operation.params),
            required_scopes |-> Range(OptSeq(operation.required_scopes)),
            destructive |-> descriptor.destructive,
            critical |-> descriptor.critical,
            idempotency_key |-> operation.idempotency_key]]]

\* Content of a raw input that passes validation and target resolution.
ContentOf(cfg, raw) ==
  LET request == normalizeRequestOperations(MutationRequest(raw, "preview"))
  IN Content(request,
             resolveRequest(cfg, request.targets,
                            request.target_selector).value.resolvedTargets)

(***************************************************************************)
(* The service as a state machine.                                         *)
(***************************************************************************)
\* The applies that can be in flight at once.
Slots == {1, 2}

NoResponse == [tool |-> "none", body |-> [status |-> "NONE"]]

Init ==
  /\ config \in Configs
  /\ clock = 1
  /\ sequence = 0
  /\ planStore = <<>>
  /\ auditLog = <<>>
  /\ idempotency = <<>>
  /\ tokens = {}
  /\ adapterCalls = <<>>
  /\ running = [s \in Slots |-> Idle]
  /\ response = NoResponse
  /\ previewed = <<>>
  /\ probe = <<>>

World ==
  [sequence |-> sequence, planStore |-> planStore, auditLog |-> auditLog,
   idempotency |-> idempotency, adapterCalls |-> adapterCalls]

\* The service state after an invocation ran to its return or suspension.
Commit(out, tool, slot) ==
  /\ sequence' = out.w.sequence
  /\ planStore' = out.w.planStore
  /\ auditLog' = out.w.auditLog
  /\ idempotency' = out.w.idempotency
  /\ adapterCalls' = out.w.adapterCalls
  /\ running' = IF slot \in Slots THEN [running EXCEPT ![slot] = out.run]
                ELSE running
  /\ response' = IF IsPresent(out.body)
                   THEN [tool |-> tool, body |-> Get(out.body)]
                   ELSE response
  /\ previewed' =
       IF tool # "changes.preview" \/ IsMutationError(Get(out.body)) THEN previewed
       ELSE (Get(out.body).plan_id :>
               [raw |-> out.input, content |-> ContentOf(config, out.input)])
            @@ previewed
  /\ tokens' = IF tool # "confirm.issue" \/ IsMutationError(Get(out.body))
                 THEN tokens
                 ELSE tokens \cup {Get(out.body).token}

StoredHashes == {planStore[p].plan_hash : p \in DOMAIN planStore}

\* The plan_id / plan_hash pair the preview of a stored plan returned.
PlanRef(p) == <<Some(p), Some(planStore[p].plan_hash)>>

\* Pairs that do not name plan p by its hash: unknown id, altered hash,
\* another plan's hash, a missing member.
WrongRefs(p) ==
  {<<Some("plan_unknown"), Some(planStore[p].plan_hash)>>,
   <<Some(p), Some(TamperedHash(planStore[p].plan_hash))>>,
   <<Absent, Some(planStore[p].plan_hash)>>,
   <<Some(p), Absent>>}
    \cup {<<Some(p), Some(h)>> : h \in StoredHashes \ {planStore[p].plan_hash}}

WithPlan(raw, ref) == [raw EXCEPT !.plan_id = ref[1], !.plan_hash = ref[2]]

SubmittableTokens ==
  {Absent} \cup {Some(t) : t \in tokens \cup ForgedTokens(tokens, StoredHashes)}
           \cup {Some(t \o <<RawSegment("x")>>) : t \in tokens}

\* The apply inputs a client submits for stored plan p: the previewed
\* request with and without token and credentials; the request changed in
\* one place or written down differently; another request of the pool; a
\* wrong plan reference; an unsupported transport.
ApplyInputsFor(p) ==
  LET raw == previewed[p].raw
  IN {[WithPlan(raw, PlanRef(p)) EXCEPT !.confirmation_token = t,
                                        !.credentials = c] :
        t \in SubmittableTokens, c \in {Absent, Some(PayloadCredentials)}}
       \cup {WithPlan(other, PlanRef(p)) :
               other \in Tampered(raw) \cup Rewritten(raw) \cup (PreviewPool \ {raw})}
       \cup {WithPlan(raw, ref) : ref \in WrongRefs(p)}
       \cup {[WithPlan(raw, PlanRef(p)) EXCEPT !.transport = Some("streamable-http")]}

ApplyInputs == UNION {ApplyInputsFor(p) : p \in DOMAIN planStore}

OtherPlanHash == "sha256(other)"

IssueInputs ==
  {[plan_hash |-> h, ttl_seconds |-> ttl] :
     h \in StoredHashes \cup {OtherPlanHash},
     ttl \in {Absent, Some(MinTokenTtlSeconds)}}
    \cup {[plan_hash |-> "", ttl_seconds |-> Absent],
          [plan_hash |-> OtherPlanHash, ttl_seconds |-> Some(MinTokenTtlSeconds - 1)]}

\* What the adapter answers to a call: data that no other apply's call is
\* answered with, or a failure.
AdapterOutcomes(input) ==
  {[ok |-> TRUE,
    data |-> JObj(<< <<"id", JStr("res-" \o input.correlation_id)>> >>)],
   [ok |-> FALSE,
    error |-> [AppwriteMcpError("INTERNAL_ERROR", "Appwrite request failed",
                 input.target_project_id, input.operation.operation_id)
               EXCEPT !.retryable = TRUE]]}

PreviewWithin(maxSequence, maxPlans, raw) ==
  /\ sequence + 2 <= maxSequence
  /\ Cardinality(DOMAIN planStore) < maxPlans
  /\ Commit(preview(config, World, raw, now) @@ [input |-> raw],
            "changes.preview", 0)
  /\ UNCHANGED <<config, clock, probe>>

Preview(raw) == PreviewWithin(MaxSequence, MaxPlans, raw)

ApplyWithin(maxSequence, slot, raw) ==
  /\ sequence + 2 <= maxSequence
  /\ running[slot] = Idle
  /\ Commit(apply(config, World, raw, now), "changes.apply", slot)
  /\ UNCHANGED <<config, clock, probe>>

Apply(slot, raw) == ApplyWithin(MaxSequence, slot, raw)

AdapterReturn(slot) ==
  /\ running[slot] # Idle
  /\ \E execution \in AdapterOutcomes(Get(running[slot].pending)) :
       Commit(resume(config, World, running[slot], execution, now),
              "changes.apply", slot)
  /\ UNCHANGED <<config, clock, probe>>

ConfirmIssue(raw) ==
  /\ sequence + 1 <= MaxSequence
  /\ Cardinality(tokens) < MaxTokens
  /\ Commit(issueConfirmationToken(config, World, raw, now), "confirm.issue", 0)
  /\ UNCHANGED <<config, clock, probe>>

Tick ==
  /\ clock < Len(Instants)
  /\ clock' = clock + 1
  /\ UNCHANGED <<config, sequence, planStore, auditLog, idempotency, tokens,
                 adapterCalls, running, response, previewed, probe>>

Next ==
  \/ \E raw \in PreviewPool \cup RejectedPool : Preview(raw)
  \/ \E raw \in ApplyInputs : Apply(1, raw)
  \/ AdapterReturn(1)
  \/ \E raw \in IssueInputs : ConfirmIssue(raw)
  \/ Tick

Spec == Init /\ [][Next]_vars


(***************************************************************************)
(* Plan check.                                                             *)
(***************************************************************************)
\* The apply inputs of an invocation that can start in the current state.
Submittable ==
  IF sequence + 2 <= MaxSequence /\ running[1] = Idle THEN ApplyInputs ELSE {}

\* requireMatchingPlan as apply calls it for a raw input.
PlanCheck(raw) ==
  requireMatchingPlan(planStore,
    normalizeRequestOperations(MutationRequest(raw, "apply")),
    resolveRequest(config, raw.targets, raw.target_selector).value.resolvedTargets,
    now, randomId(sequence + 2), config.planTtlSeconds)

\* The checks apply runs before the plan check pass.
ReachesPlanCheck(raw) ==
  /\ parseApplyRequest(raw).ok
  /\ resolveTransport(config, raw.transport).ok
  /\ resolveRequest(config, raw.targets, raw.target_selector).ok

\* plan_id and plan_hash are supplied, plan_id names a stored plan that has
\* not expired, and the submitted hash is the stored one.
Admissible(raw) ==
  /\ IsPresent(raw.plan_id)
  /\ IsPresent(raw.plan_hash)
  /\ Get(raw.plan_id) \in DOMAIN planStore
  /\ now < planStore[Get(raw.plan_id)].expires_at
  /\ planStore[Get(raw.plan_id)].plan_hash = Get(raw.plan_hash)

\* The invocation returned an error response with this code and called the
\* adapter not once.
RejectedWith(out, codes) ==
  /\ out.run = Idle
  /\ IsMutationError(Get(out.body))
  /\ Get(out.body).error.code \in codes
  /\ out.w.adapterCalls = adapterCalls

\* C1: requireMatchingPlan returns the stored plan only when plan_id and
\* plan_hash are both supplied, plan_id names a stored plan, now is before
\* that plan's expires_at and the stored hash equals the submitted one; in
\* every other case, now = expires_at included, it fails with PLAN_MISMATCH,
\* and changes.apply then returns PLAN_MISMATCH without an adapter call.
C1_RequireMatchingPlan ==
  \A raw \in Submittable :
    LET Holds(result) ==
          /\ result.ok => Admissible(raw) /\ result.value = planStore[Get(raw.plan_id)]
          /\ ~Admissible(raw) => ~result.ok
          /\ ~result.ok => result.error.code = "PLAN_MISMATCH"
          /\ ReachesPlanCheck(raw) /\ ~result.ok =>
               RejectedWith(apply(config, World, raw, now), {"PLAN_MISMATCH"})
    IN Holds(PlanCheck(raw))

\* An apply was refused at the very instant its plan expires.
C1_Witness ==
  /\ response.tool = "changes.apply"
  /\ IsMutationError(response.body)
  /\ response.body.error.code = "PLAN_MISMATCH"
  /\ response.body.error.message = "plan has expired"
  /\ \E p \in DOMAIN planStore : planStore[p].expires_at = now
  /\ adapterCalls = <<>>


(***************************************************************************)
(* Tamper defence.                                                         *)
(***************************************************************************)
\* The input names a stored plan by its own hash.
GenuineRef(raw) ==
  /\ IsPresent(raw.plan_id)
  /\ IsPresent(raw.plan_hash)
  /\ Get(raw.plan_id) \in DOMAIN planStore
  /\ planStore[Get(raw.plan_id)].plan_hash = Get(raw.plan_hash)

\* C2: an apply that carries the genuine plan_id and plan_hash of a preview
\* but whose actor, resolved target list or normalized operations differ
\* from the previewed request fails with PLAN_MISMATCH without an adapter
\* call; an apply that repeats the previewed content passes the plan check
\* (while the plan has not expired).
C2_TamperDefence ==
  \A raw \in Submittable :
    GenuineRef(raw) /\ ReachesPlanCheck(raw) =>
      IF ContentOf(config, raw) # previewed[Get(raw.plan_id)].content
        THEN RejectedWith(apply(config, World, raw, now), {"PLAN_MISMATCH"})
        ELSE now < planStore[Get(raw.plan_id)].expires_at =>
               /\ PlanCheck(raw).ok
               /\ PlanCheck(raw).value = planStore[Get(raw.plan_id)]

\* An apply whose request differs from the previewed one was refused.
C2_Witness ==
  /\ response.tool = "changes.apply"
  /\ IsMutationError(response.body)
  /\ response.body.error.code = "PLAN_MISMATCH"
  /\ response.body.error.message = "request differs from preview"
  /\ adapterCalls = <<>>

(***************************************************************************)
(* Confirmation gate.                                                      *)
(***************************************************************************)
HasCritical(plan) == \E i \in 1..Len(plan.operations) : plan.operations[i].critical

\* How the submitted token verifies against the plan's hash now.
TokenVerification(raw, plan) ==
  IF IsPresent(raw.confirmation_token)
    THEN verify(config.confirmationSecret, Get(raw.confirmation_token),
                plan.plan_hash, now \div 1000)
    ELSE VerificationFail("absent")

\* The request-level auth and scope preflight, which apply runs between
\* the plan check and the confirmation gate, passes.
RequestPreflightPasses(plan) ==
  \/ hasPerProjectAuthContexts(config)
  \/ /\ ensureAuthContext(config.authContext).ok
     /\ preflightScopes(plan.required_scopes, config.authContext.scopes).ok

\* C3: for a matched plan with a critical operation, apply makes no adapter
\* call unless the submitted token verifies ok against the plan's hash at
\* the current time: without a token or with an expired one the gate answers
\* CONFIRM_REQUIRED, with a malformed, badly signed or other-hash token
\* INVALID_CONFIRM_TOKEN; with a token that verifies the apply is executed.
\* A plan without a critical operation is executed whatever the token.
C3_ConfirmationGate ==
  \A raw \in Submittable :
    LET Holds(matched, out) ==
          ReachesPlanCheck(raw) /\ matched.ok =>
            LET plan == matched.value
                verification == TokenVerification(raw, plan)
            IN /\ HasCritical(plan) /\ ~verification.ok =>
                    /\ out.run = Idle
                    /\ IsMutationError(Get(out.body))
                    /\ out.w.adapterCalls = adapterCalls
                    /\ RequestPreflightPasses(plan) =>
                         Get(out.body).error.code =
                           IF verification.reason \in {"absent", "expired"}
                             THEN "CONFIRM_REQUIRED"
                             ELSE "INVALID_CONFIRM_TOKEN"
               /\ RequestPreflightPasses(plan)
                    /\ (~HasCritical(plan) \/ verification.ok) =>
                    \/ out.run # Idle
                    \/ ~IsMutationError(Get(out.body))
    IN Holds(PlanCheck(raw), apply(config, World, raw, now))

\* An apply of a critical plan carrying a token that does not verify for the
\* plan's hash was refused with INVALID_CONFIRM_TOKEN.
C3_Witness ==
  /\ response.tool = "changes.apply"
  /\ IsMutationError(response.body)
  /\ response.body.error.code = "INVALID_CONFIRM_TOKEN"
  /\ tokens # {}
  /\ \E p \in DOMAIN planStore : HasCritical(planStore[p])
  /\ adapterCalls = <<>>

(***************************************************************************)
(* Client credentials.                                                     *)
(***************************************************************************)
CredentialChoices ==
  {Absent, Some(PayloadCredentials),
   Some(AuthContext(FallbackAuth.endpoint, Some("payload-secret-key"), AllScopes))}

\* What an invocation did and answered, the credentials it carried aside.
Observable(out) ==
  [w |-> out.w, body |-> out.body,
   run |-> IF out.run = Idle THEN Idle
           ELSE [out.run EXCEPT !.request.credentials = Absent]]

\* C4: two applies that differ only in credentials make the same adapter
\* calls and get the same response, at the start of the apply and at every
\* later step of it; every auth_context handed to the adapter is a
\* configured one; and where the configured fallback context lacks endpoint
\* or api_key, an apply that passes the plan check fails with
\* AUTH_CONTEXT_REQUIRED although its payload carries credentials.
C4_CredentialsIgnored ==
  /\ \A raw \in Submittable : \A c \in CredentialChoices :
       Observable(apply(config, World, [raw EXCEPT !.credentials = c], now))
         = Observable(apply(config, World, [raw EXCEPT !.credentials = Absent], now))
  /\ running[1] # Idle =>
       \A c \in CredentialChoices :
         \A execution \in AdapterOutcomes(Get(running[1].pending)) :
           Observable(resume(config, World,
                        [running[1] EXCEPT !.request.credentials = c],
                        execution, now))
             = Observable(resume(config, World,
                            [running[1] EXCEPT !.request.credentials = Absent],
                            execution, now))
  /\ \A i \in 1..Len(adapterCalls) :
       adapterCalls[i].auth_context \in ConfiguredAuthContexts(config)
  /\ ~hasPerProjectAuthContexts(config) /\ ~ensureAuthContext(config.authContext).ok =>
       \A raw \in Submittable :
         IsPresent(raw.credentials) /\ ReachesPlanCheck(raw) /\ PlanCheck(raw).ok =>
           RejectedWith(apply(config, World, raw, now), {"AUTH_CONTEXT_REQUIRED"})

\* An apply that carried credentials has called the adapter.
C4_Witness ==
  /\ running[1] # Idle
  /\ IsPresent(running[1].request.credentials)
  /\ Len(adapterCalls) > 0

IsApplyResponse(r) == r.tool = "changes.apply" /\ ~IsMutationError(r.body)

\* C10: the target_results of an ApplyResponse are as many as the
\* target_projects of the plan the preview returned, and the i-th result is
\* for the i-th target project.
C10_TargetOrdering ==
  IsApplyResponse(response) =>
    LET targetProjects == previewed[response.body.plan_id].content.target_projects
        targetResults == response.body.target_results
    IN /\ planStore[response.body.plan_id].target_projects = targetProjects
       /\ Len(targetResults) = Len(targetProjects)
       /\ \A i \in 1..Len(targetProjects) :
            targetResults[i].project_id = targetProjects[i]

\* An apply over two targets returned with the first target executed and
\* the second failed in its auth-context preflight.
C10_Witness ==
  /\ IsApplyResponse(response)
  /\ Len(response.body.target_results) = 2
  /\ response.body.target_results[1].status = "SUCCESS"
  /\ response.body.target_results[2].status = "FAILED"
  /\ \E i \in 1..Len(response.body.target_results[2].operations) :
       Get(response.body.target_results[2].operations[i].error).code
         = "AUTH_CONTEXT_REQUIRED"


(***************************************************************************)
(* The confirmation token service on its own: tokens are issued, altered   *)
(* by a client, and verified.                                              *)
(***************************************************************************)
TokenHashes == {"sha256(a)", "sha256(b)"}

\* Expiry and verification times (Unix seconds).
TokenTimes == 29..31

PureConfig ==
  ServiceOptions(AuthContext(FallbackAuth.endpoint, FallbackAuth.api_key, ScopeOrder),
                 NoProjectAuth, TRUE)

InitPure ==
  /\ config = PureConfig
  /\ clock = 1
  /\ sequence = 0
  /\ planStore = <<>>
  /\ auditLog = <<>>
  /\ idempotency = <<>>
  /\ tokens = {}
  /\ adapterCalls = <<>>
  /\ running = [s \in Slots |-> Idle]
  /\ response = NoResponse
  /\ previewed = <<>>
  /\ probe = [stage |-> "none"]

ServiceUnchanged ==
  UNCHANGED <<config, clock, sequence, planStore, auditLog, idempotency, tokens,
              adapterCalls, running, response, previewed>>

TokenIssue(planHash, exp) ==
  /\ probe.stage = "none"
  /\ probe' = [stage |-> "held", plan_hash |-> planHash, exp |-> exp, signed |-> TRUE,
               token |-> issue(config.confirmationSecret, planHash, exp)]
  /\ ServiceUnchanged

\* What a client can make of an issued token without the secret: another
\* payload under the issued signature, or the issued payload under a
\* signature of its own making.
TokenAlter ==
  /\ probe.stage = "held"
  /\ probe.signed
  /\ \/ \E planHash \in TokenHashes, exp \in TokenTimes :
          /\ <<planHash, exp>> # <<probe.plan_hash, probe.exp>>
          /\ probe' = [probe EXCEPT
                         !.plan_hash = planHash, !.exp = exp, !.signed = FALSE,
                         !.token = <<issue("", planHash, exp)[1], probe.token[2]>>]
     \/ \E signature \in {RawSegment("c2ln"), Hmac("attacker-secret", probe.token[1])} :
          probe' = [probe EXCEPT !.signed = FALSE,
                                 !.token = <<probe.token[1], signature>>]
  /\ ServiceUnchanged

TokenVerify(expectedPlanHash, nowUnixSeconds) ==
  /\ probe.stage = "held"
  /\ probe' = [probe EXCEPT !.stage = "verified"]
               @@ [expected |-> expectedPlanHash, now |-> nowUnixSeconds,
                   result |-> verify(config.confirmationSecret, probe.token,
                                     expectedPlanHash, nowUnixSeconds)]
  /\ ServiceUnchanged

NextToken ==
  \/ \E planHash \in TokenHashes, exp \in TokenTimes : TokenIssue(planHash, exp)
  \/ TokenAlter
  \/ \E expectedPlanHash \in TokenHashes, nowUnixSeconds \in TokenTimes :
       TokenVerify(expectedPlanHash, nowUnixSeconds)

SpecToken == InitPure /\ [][NextToken]_vars

\* C6: a token issued for plan hash h with expiry exp verifies ok against h
\* while exp > now and as expired from now = exp on; against another hash it
\* verifies as mismatch, expired or not; a token whose signature is not the
\* one of its payload verifies as invalid whatever the payload says.  So the
\* checks come in the order signature, plan hash, expiry.
C6_TokenRoundTrip ==
  probe.stage = "verified" =>
    probe.result =
      IF ~probe.signed THEN VerificationFail("invalid")
      ELSE IF probe.expected # probe.plan_hash THEN VerificationFail("mismatch")
      ELSE IF probe.now >= probe.exp THEN VerificationFail("expired")
      ELSE [ok |-> TRUE]

\* An issued token that has expired was verified against another plan hash.
C6_Witness ==
  /\ probe.stage = "verified"
  /\ probe.signed
  /\ probe.expected # probe.plan_hash
  /\ probe.now >= probe.exp
  /\ probe.result = VerificationFail("mismatch")


(***************************************************************************)
(* Plan building on its own: a request is previewed, then either previewed *)
(* again in another writing, or taken through the checks of apply.         *)
(***************************************************************************)
Overrides == {Absent, Some(TRUE), Some(FALSE)}

DeclaredScopes == {Absent, Some(<<>>), Some(<<"users.write", "custom.scope">>)}

NestedParams ==
  JObj(<< <<"name", JStr("Main DB")>>,
          <<"a", JObj(<< <<"database_id", JStr("db-main")>>, <<"b", JStr("x")>> >>)>>,
          <<"meta", JArr(<<JStr("x"), JStr("y")>>)>> >>)

\* params as JSON.parse returns them for a text with a "__proto__" member.
HiddenParams ==
  JObj(<< <<"name", JStr("Main DB")>>,
          <<"a", JObj(<< <<"__proto__",
                           JObj(<< <<"meta", JArr(<<JStr("x"), JStr("y")>>)>> >>)>> >>)>> >>)

PlanParams == {NestedParams, HiddenParams}

PlanOperation(action, params, destructive, critical, scopes) ==
  [Operation("op-0", toDomainFromAction(action), action, params)
   EXCEPT !.destructive = destructive, !.critical = critical,
          !.required_scopes = scopes]

PlanTargets == {<<Target("P_A")>>, <<Target("P_A"), Target("P_B")>>}

Reverse(s) == [i \in 1..Len(s) |-> s[Len(s) + 1 - i]]

RECURSIVE ReverseKeys(_)
ReverseKeys(value) ==
  IF value.t = "obj"
    THEN JObj(Reverse([i \in 1..Len(value.entries) |->
                         <<value.entries[i][1], ReverseKeys(value.entries[i][2])>>]))
  ELSE IF value.t = "arr"
    THEN JArr([i \in 1..Len(value.items) |-> ReverseKeys(value.items[i])])
  ELSE value

RECURSIVE ReverseArrays(_)
ReverseArrays(value) ==
  IF value.t = "obj"
    THEN JObj([i \in 1..Len(value.entries) |->
                 <<value.entries[i][1], ReverseArrays(value.entries[i][2])>>])
  ELSE IF value.t = "arr"
    THEN JArr(Reverse([i \in 1..Len(value.items) |-> ReverseArrays(value.items[i])]))
  ELSE value

ReverseScopes(operation) ==
  [operation EXCEPT !.required_scopes =
     IF IsPresent(@) THEN Some(Reverse(Get(@))) ELSE @]

Variants == {"later", "keys", "scopes", "array", "operations", "targets"}

\* The same request written down again.
Variant(raw, variant) ==
  CASE variant = "later" -> raw
    [] variant = "keys" ->
         [raw EXCEPT !.operations =
            [i \in 1..Len(@) |-> [@[i] EXCEPT !.params = ReverseKeys(@)]]]
    [] variant = "scopes" -> [raw EXCEPT !.operations = SeqMap(ReverseScopes, @)]
    [] variant = "array" ->
         [raw EXCEPT !.operations =
            [i \in 1..Len(@) |-> [@[i] EXCEPT !.params = ReverseArrays(@)]]]
    [] variant = "operations" -> [raw EXCEPT !.operations = Reverse(@)]
    [] variant = "targets" -> [raw EXCEPT !.targets = Reverse(@)]

\* preview of raw up to the plan: the normalized request, its resolved
\* targets and the plan built from them.
Planned(cfg, raw, nowMs, id) ==
  LET build(request, resolvedTargets) ==
        [raw |-> raw, request |-> request, resolvedTargets |-> resolvedTargets,
         plan |-> buildPlan(request, resolvedTargets, nowMs, id, cfg.planTtlSeconds)]
      locate(request) ==
        build(normalizeRequestOperations(request),
              resolveRequest(cfg, request.targets,
                             request.target_selector).value.resolvedTargets)
  IN locate(parsePreviewRequest(raw).value)

PlanFirst(raw) ==
  /\ probe.stage = "none"
  /\ probe' = [stage |-> "one", first |-> Planned(config, raw, 0, randomId(2))]
  /\ ServiceUnchanged

PlanSecond(variant) ==
  /\ probe.stage = "one"
  /\ probe' = [probe EXCEPT !.stage = "two"]
               @@ [variant |-> variant,
                   second |-> Planned(config, Variant(probe.first.raw, variant),
                                      1000, randomId(4))]
  /\ ServiceUnchanged

\* apply of the previewed request one second later, with or without a
\* confirmation token issued for the plan.
PlanApply(confirmed) ==
  /\ probe.stage = "one"
  /\ probe' = [probe EXCEPT !.stage = "applied"]
               @@ [confirmed |-> confirmed,
                   checks |->
                     applyChecks(config,
                       probe.first.plan.plan_id :> probe.first.plan,
                       [probe.first.raw EXCEPT
                          !.plan_id = Some(probe.first.plan.plan_id),
                          !.plan_hash = Some(probe.first.plan.plan_hash),
                          !.confirmation_token =
                            IF confirmed
                              THEN Some(issue(config.confirmationSecret,
                                              probe.first.plan.plan_hash,
                                              DefaultTokenTtlSeconds))
                              ELSE Absent],
                       1000, 4)]
  /\ ServiceUnchanged

NextPlan ==
  \/ \E action \in Actions, params \in PlanParams, destructive \in Overrides,
        critical \in Overrides, scopes \in DeclaredScopes, targets \in PlanTargets :
       PlanFirst(RawInput("tester", targets,
                          <<PlanOperation(action, params, destructive, critical, scopes),
                            OpCreate>>))
  \/ \E variant \in Variants : PlanSecond(variant)
  \/ \E confirmed \in BOOLEAN : PlanApply(confirmed)

SpecPlan == InitPure /\ [][NextPlan]_vars


(***************************************************************************)
(* Policy flags of a plan.                                                 *)
(***************************************************************************)
\* C7: in every plan an operation's descriptor is destructive if its action
\* is project.delete or database.delete_collection or the client sent
\* destructive=true, and critical exactly when its action is project.delete,
\* or it is destructive and the plan has two or more target projects, or
\* the client sent critical=true; false overrides lower nothing.  An apply
\* of a plan with a critical operation and no confirmation token is
\* refused with CONFIRM_REQUIRED, whatever false overrides the client sent.
C7_PolicyMonotonicity ==
  probe.stage \in {"one", "two", "applied"} =>
    LET raw == probe.first.raw
        plan == probe.first.plan
    IN /\ Len(plan.operations) = Len(raw.operations)
       /\ \A i \in 1..Len(raw.operations) :
            LET operation == raw.operations[i]
                descriptor == plan.operations[i]
            IN /\ descriptor.operation_id = operation.operation_id
               /\ (operation.action \in {"project.delete", "database.delete_collection"}
                   \/ operation.destructive = Some(TRUE))
                    => descriptor.destructive
               /\ descriptor.critical <=>
                    \/ operation.action = "project.delete"
                    \/ descriptor.destructive /\ Len(plan.target_projects) >= 2
                    \/ operation.critical = Some(TRUE)
       /\ (probe.stage = "applied" /\ ~probe.confirmed
            /\ \E i \in 1..Len(raw.operations) :
                  \/ raw.operations[i].action = "project.delete"
                  \/ /\ raw.operations[i].action = "database.delete_collection"
                     /\ Len(raw.targets) >= 2)
            => /\ ~probe.checks.ok
               /\ probe.checks.error.code = "CONFIRM_REQUIRED"

\* A project.delete sent with destructive=false and critical=false was
\* planned as destructive and critical and refused at apply for want of a
\* token.
C7_Witness ==
  /\ probe.stage = "applied"
  /\ ~probe.confirmed
  /\ probe.first.raw.operations[1].action = "project.delete"
  /\ probe.first.raw.operations[1].destructive = Some(FALSE)
  /\ probe.first.raw.operations[1].critical = Some(FALSE)
  /\ probe.first.plan.operations[1].destructive
  /\ probe.first.plan.operations[1].critical
  /\ ~probe.checks.ok
  /\ probe.checks.error.code = "CONFIRM_REQUIRED"

(***************************************************************************)
(* Required scopes of a plan.                                              *)
(***************************************************************************)
StrictlySorted(scopes) ==
  \A i \in 1..Len(scopes), j \in 1..Len(scopes) :
    i < j => ScopeBefore(scopes[i], scopes[j])

CoversCatalog(raw, operations) ==
  /\ Len(operations) = Len(raw.operations)
  /\ \A i \in 1..Len(operations) :
       /\ operations[i].action = raw.operations[i].action
       /\ IsPresent(operations[i].required_scopes)
       /\ Range(Get(operations[i].required_scopes)) =
            Range(actionRequiredScopes(operations[i].action))
              \cup Range(OptSeq(raw.operations[i].required_scopes))

\* C8: the required_scopes of every operation that is planned, and of every
\* operation handed to the executor, hold the catalog's scopes of its action
\* together with the scopes the client declared; the plan's required_scopes
\* is the sorted, duplicate-free union of its operations' required_scopes.
C8_CatalogMonotonicity ==
  /\ probe.stage \in {"one", "two", "applied"} =>
       /\ CoversCatalog(probe.first.raw, probe.first.request.operations)
       /\ StrictlySorted(probe.first.plan.required_scopes)
       /\ Range(probe.first.plan.required_scopes) =
            UNION {Range(Get(probe.first.request.operations[i].required_scopes)) :
                     i \in 1..Len(probe.first.request.operations)}
  /\ (probe.stage = "applied" /\ probe.checks.ok) =>
       CoversCatalog(probe.first.raw, probe.checks.value.request.operations)

\* A database.delete_collection declared with users.write and custom.scope
\* only was planned and handed to the executor.
C8_Witness ==
  /\ probe.stage = "applied"
  /\ probe.checks.ok
  /\ probe.first.raw.operations[1].action = "database.delete_collection"
  /\ probe.first.raw.operations[1].required_scopes =
       Some(<<"users.write", "custom.scope">>)
  /\ probe.checks.value.request.operations[1].required_scopes =
       Some(<<"databases.write", "users.write", "custom.scope">>)
  /\ probe.first.plan.required_scopes =
       <<"custom.scope", "databases.write", "users.write">>


(***************************************************************************)
(* Plan hash of two writings of a request.                                 *)
(***************************************************************************)
SameWriting == {"later", "keys", "scopes"}

\* The plan hash depends on the content of the request only, not on the
\* order of the keys of params or of required_scopes, nor on the time or
\* the plan id.
HashStable ==
  probe.stage = "two" =>
    /\ Content(probe.first.request, probe.first.resolvedTargets)
         = Content(probe.second.request, probe.second.resolvedTargets)
         => probe.second.plan.plan_hash = probe.first.plan.plan_hash
    /\ probe.variant \in SameWriting
         => probe.second.plan.plan_hash = probe.first.plan.plan_hash
    /\ probe.variant = "later"
         => probe.second.plan.plan_id # probe.first.plan.plan_id

\* C9: the plan hash is a function of the actor, the target projects and
\* the normalized operations only: the same request with the keys of params
\* reordered at any depth, or with required_scopes reordered, or previewed
\* later (under another plan id), has the same plan hash; with the elements
\* of an array of params, the operations or the targets reordered it has
\* another canonical form, hence another hash.
C9_HashStability ==
  /\ HashStable
  /\ (probe.stage = "two" /\ probe.variant \notin SameWriting
        /\ probe.second.raw # probe.first.raw)
       => probe.second.plan.plan_hash # probe.first.plan.plan_hash

(***************************************************************************)
(* The executor at work: requests of several operations over several       *)
(* targets, applied twice, also with both applies in flight at once, under *)
(* fallback and per-project credentials.                                   *)
(***************************************************************************)
MaxExecSequence == 6   \* ids randomId hands out in one run
MaxExecPlans == 1      \* previews stored in one run

NoScopes == <<>>

EmptyScopesAuth ==
  AuthContext(Some("https://b.example/v1"), Some("sk_b"), NoScopes)

NoKeyAuth == AuthContext(Some("https://c.example/v1"), Absent, AllScopes)

\* The configurations: a complete fallback context without the management
\* channel; a fallback context of few scopes; a fallback context whose
\* scopes are not known; a per-project map with a context of few scopes
\* (P_A), one of unknown scopes (P_B) and one without api_key (P_C), and no
\* entry for P_D.
ExecConfigs ==
  {ServiceOptions(FallbackAuth, NoProjectAuth, FALSE),
   ServiceOptions(FileAuthA, NoProjectAuth, FALSE),
   ServiceOptions(AuthContext(FallbackAuth.endpoint, FallbackAuth.api_key, NoScopes),
                  NoProjectAuth, TRUE),
   ServiceOptions(FallbackAuth,
                  ("P_A" :> FileAuthA) @@ ("P_B" :> EmptyScopesAuth)
                    @@ ("P_C" :> NoKeyAuth),
                  TRUE)}

UserParams == JObj(<< <<"name", JStr("Ada")>> >>)

OpUserCreate ==
  [Operation("op-user", "auth", "auth.users.create", UserParams)
   EXCEPT !.idempotency_key = Some("k1"),
          !.required_scopes = Some(<<"databases.write">>)]

OpProjectCreate ==
  Operation("op-project", "project", "project.create",
            JObj(<< <<"project_id", JStr("P_N")>>, <<"name", JStr("New")>> >>))

ReqKeyedBoth ==
  RawInput("tester", <<Target("P_A"), Target("P_B")>>, <<OpUserCreate, OpCreate>>)
ReqUnconfigured ==
  RawInput("tester", <<Target("P_D"), Target("P_C"), Target("P_A")>>, <<OpCreate>>)
ReqProjectCreate == RawInput("tester", <<Target("P_A")>>, <<OpProjectCreate, OpCreate>>)
ReqInherited == RawInput("tester", <<Target("P_B"), Target("constructor")>>, <<OpCreate>>)

ExecPool == {ReqKeyedBoth, ReqUnconfigured, ReqProjectCreate, ReqInherited}

InitExec ==
  /\ config \in ExecConfigs
  /\ clock = 1
  /\ sequence = 0
  /\ planStore = <<>>
  /\ auditLog = <<>>
  /\ idempotency = <<>>
  /\ tokens = {}
  /\ adapterCalls = <<>>
  /\ running = [s \in Slots |-> Idle]
  /\ response = NoResponse
  /\ previewed = <<>>
  /\ probe = <<>>

\* The slot an apply starts in: the first one that is free.
FreeSlot == IF running[1] = Idle THEN 1 ELSE 2

NextExec ==
  \/ \E raw \in ExecPool : PreviewWithin(MaxExecSequence, MaxExecPlans, raw)
  \/ \E p \in DOMAIN planStore :
       ApplyWithin(MaxExecSequence, FreeSlot, WithPlan(previewed[p].raw, PlanRef(p)))
  \/ \E slot \in Slots : AdapterReturn(slot)

SpecExec == InitExec /\ [][NextExec]_vars


(***************************************************************************)
(* Status aggregation.                                                     *)
(***************************************************************************)
Succeeded(entry) == entry.status = "SUCCESS"

\* C11: in every ApplyResponse a target's status is SUCCESS when each of its
\* operation results is SUCCESS and FAILED otherwise; the response's status
\* is SUCCESS exactly when all targets are SUCCESS, FAILED exactly when none
\* is, and PARTIAL_SUCCESS exactly when some target succeeded and some
\* target failed.
C11_StatusAggregation ==
  IsApplyResponse(response) =>
    LET results == response.body.target_results
        targets == 1..Len(results)
    IN /\ \A i \in targets :
            /\ results[i].status \in {"SUCCESS", "FAILED"}
            /\ Succeeded(results[i]) <=>
                 \A j \in 1..Len(results[i].operations) :
                   Succeeded(results[i].operations[j])
       /\ response.body.status = "SUCCESS" <=> \A i \in targets : Succeeded(results[i])
       /\ response.body.status = "FAILED" <=> \A i \in targets : ~Succeeded(results[i])
       /\ response.body.status = "PARTIAL_SUCCESS" <=>
            /\ \E i \in targets : Succeeded(results[i])
            /\ \E i \in targets : ~Succeeded(results[i])

\* An apply over two targets ended with one target executed and the other
\* failed with one of its two operations executed.
C11_Witness ==
  /\ IsApplyResponse(response)
  /\ response.body.status = "PARTIAL_SUCCESS"
  /\ \E i \in 1..Len(response.body.target_results) :
       Succeeded(response.body.target_results[i])
  /\ \E i \in 1..Len(response.body.target_results) :
       LET entry == response.body.target_results[i]
       IN /\ entry.status = "FAILED"
          /\ \E j \in 1..Len(entry.operations) : Succeeded(entry.operations[j])
          /\ \E j \in 1..Len(entry.operations) : ~Succeeded(entry.operations[j])

(***************************************************************************)
(* Idempotency.                                                            *)
(***************************************************************************)
Keyed(operation) == IsPresent(operation.idempotency_key)

CallsFor(targetProjectId, operation) ==
  {i \in 1..Len(adapterCalls) :
     /\ adapterCalls[i].target_project_id = targetProjectId
     /\ adapterCalls[i].operation.action = operation.action
     /\ adapterCalls[i].operation.idempotency_key = operation.idempotency_key}

\* An adapter call for the operation on the target has returned ok: the
\* executor has logged its success.
OkReturned(targetProjectId, operation) ==
  \E i \in 1..Len(auditLog) :
    /\ auditLog[i].outcome = "success"
    /\ auditLog[i].target_project = targetProjectId
    /\ auditLog[i].operation_id = operation.operation_id

SkippedBy(correlationId, targetProjectId, operation) ==
  \E i \in 1..Len(auditLog) :
    /\ auditLog[i].outcome = "skipped"
    /\ auditLog[i].correlation_id = correlationId
    /\ auditLog[i].target_project = targetProjectId
    /\ auditLog[i].operation_id = operation.operation_id

CalledBy(correlationId, targetProjectId, operation) ==
  \E i \in CallsFor(targetProjectId, operation) :
    adapterCalls[i].correlation_id = correlationId

AnswerTo(correlationId) == Some(JObj(<< <<"id", JStr("res-" \o correlationId)>> >>))

NoCallAfterSuccess ==
  \A i \in (Len(adapterCalls) + 1)..Len(adapterCalls') :
    Keyed(adapterCalls'[i].operation) =>
      ~OkReturned(adapterCalls'[i].target_project_id, adapterCalls'[i].operation)

\* In an ApplyResponse a keyed operation that succeeded was either called by
\* this apply and carries the adapter's answer to it, or was skipped: then
\* this apply made no call for it, logged the skip, and the result carries
\* the answer to another apply's call for the same target.
SkippedFromCache ==
  IsApplyResponse(response) =>
    LET c == response.body.correlation_id
        operations == previewed[response.body.plan_id].raw.operations
    IN \A t \in 1..Len(response.body.target_results) :
         \A o \in 1..Len(operations) :
           LET target == response.body.target_results[t].project_id
               result == response.body.target_results[t].operations[o]
           IN (Keyed(operations[o]) /\ Succeeded(result)) =>
                IF SkippedBy(c, target, operations[o])
                  THEN /\ ~CalledBy(c, target, operations[o])
                       /\ \E i \in CallsFor(target, operations[o]) :
                            /\ adapterCalls[i].correlation_id # c
                            /\ result.data = AnswerTo(adapterCalls[i].correlation_id)
                  ELSE /\ CalledBy(c, target, operations[o])
                       /\ result.data = AnswerTo(c)

SubmittableExec ==
  IF sequence + 2 <= MaxExecSequence /\ running[FreeSlot] = Idle
    THEN {WithPlan(previewed[p].raw, PlanRef(p)) : p \in DOMAIN planStore}
    ELSE {}

\* The operations of a raw request with the catalog's scopes added.
NormalizedOperations(raw) ==
  normalizeRequestOperations(MutationRequest(raw, "apply")).operations

RequiredScopes(operation) == OptSeq(operation.required_scopes)

\* required minus available, in the order of required.
Minus(required, available) ==
  SeqFilter(LAMBDA scope : \A i \in 1..Len(available) : available[i] # scope,
            required)

\* The configured auth context a target project's operations outside the
\* project. namespace run under, if there is a complete one.
ConfiguredContext(projectId) ==
  LET context == IF DOMAIN config.projectAuthContexts = {}
                   THEN Some(config.authContext)
                 ELSE IF projectId \in DOMAIN config.projectAuthContexts
                   THEN Some(config.projectAuthContexts[projectId])
                 ELSE Absent
  IN IF IsPresent(context) /\ Truthy(Get(context).endpoint)
          /\ Truthy(Get(context).api_key)
       THEN context ELSE Absent

\* The operation lacks a scope on the target: the target's context has
\* scopes, and not all that the operation requires.
LacksScope(projectId, operation) ==
  /\ ~IsProjectAction(operation.action)
  /\ IsPresent(ConfiguredContext(projectId))
  /\ Get(ConfiguredContext(projectId)).scopes # <<>>
  /\ Minus(RequiredScopes(operation), Get(ConfiguredContext(projectId)).scopes) # <<>>

\* The operation passes every preflight on the target.
PassesPreflight(projectId, operation) ==
  /\ ~IsProjectAction(operation.action)
  /\ IsPresent(ConfiguredContext(projectId))
  /\ ~LacksScope(projectId, operation)

\* In an ApplyResponse an operation that lacks a scope on a target is
\* FAILED there with MISSING_SCOPE and the scopes lacking, this apply made
\* no adapter call for it, and the operations that pass the preflight on
\* the other targets were dispatched or returned from the cache.
PerOperationScopes ==
  IsApplyResponse(response) =>
    LET c == response.body.correlation_id
        operations == NormalizedOperations(previewed[response.body.plan_id].raw)
        results == response.body.target_results
    IN \A t \in 1..Len(results) : \A o \in 1..Len(operations) :
         LET target == results[t].project_id
             result == results[t].operations[o]
         IN LacksScope(target, operations[o]) =>
              /\ result.operation_id = operations[o].operation_id
              /\ result.status = "FAILED"
              /\ Get(result.error).code = "MISSING_SCOPE"
              /\ Get(result.error).missing_scopes =
                   Some(Minus(RequiredScopes(operations[o]),
                              Get(ConfiguredContext(target)).scopes))
              /\ ~CalledBy(c, target, operations[o])
              /\ \A t2 \in 1..Len(results) : \A o2 \in 1..Len(operations) :
                   PassesPreflight(results[t2].project_id, operations[o2]) =>
                     \/ CalledBy(c, results[t2].project_id, operations[o2])
                     \/ SkippedBy(c, results[t2].project_id, operations[o2])

\* Some operation of the request lacks a scope on some target.
SomeLacksScope(raw) ==
  LET targets == resolveRequest(config, raw.targets, raw.target_selector)
      operations == NormalizedOperations(raw)
  IN /\ targets.ok
     /\ \E t \in 1..Len(targets.value.resolvedTargets) :
          \E o \in 1..Len(operations) :
            LacksScope(targets.value.resolvedTargets[t].project_id, operations[o])

\* C13 as claimed: an operation that lacks a scope on a target is reported
\* inside the ApplyResponse, FAILED with MISSING_SCOPE and missing_scopes =
\* required_scopes minus the available scopes, without an adapter call for
\* it, and the other targets are executed.
C13_ScopePreflight ==
  /\ PerOperationScopes
  /\ \A raw \in SubmittableExec :
       LET Answered(out) == out.run # Idle \/ ~IsMutationError(Get(out.body))
       IN SomeLacksScope(raw) => Answered(apply(config, World, raw, now))

\* Without a per-project map an apply one of whose operations lacks a
\* scope is refused as a whole.
RequestLevelScopes ==
  \A raw \in SubmittableExec :
    LET Refused(out, plan) ==
          /\ out.run = Idle
          /\ IsMutationError(Get(out.body))
          /\ Get(out.body).error.code = "MISSING_SCOPE"
          /\ Get(out.body).error.missing_scopes =
               Some(Minus(plan.required_scopes, config.authContext.scopes))
          /\ out.w.adapterCalls = adapterCalls
    IN (SomeLacksScope(raw) /\ DOMAIN config.projectAuthContexts = {}) =>
         Refused(apply(config, World, raw, now), planStore[Get(raw.plan_id)])

\* C13 as amended: with a per-project auth map the claim holds as stated;
\* with the fallback context alone, an apply of a plan that requires a scope
\* absent from the non-empty fallback scopes is answered by a
\* MutationErrorResponse MISSING_SCOPE whose missing_scopes is the plan's
\* required_scopes minus the fallback scopes, and no adapter call is made.
C13_ScopePreflightPerProject == PerOperationScopes /\ RequestLevelScopes

\* An apply under the per-project map failed op-user on P_A for the one
\* scope of its two that P_A's key lacks, and called the adapter for it on
\* P_B.
C13_Witness ==
  /\ IsApplyResponse(response)
  /\ DOMAIN config.projectAuthContexts # {}
  /\ Len(response.body.target_results) = 2
  /\ LET operation == NormalizedOperations(previewed[response.body.plan_id].raw)[1]
         failed == response.body.target_results[1].operations[1]
     IN /\ LacksScope("P_A", operation)
        /\ Len(RequiredScopes(operation)) = 2
        /\ Get(failed.error).missing_scopes = Some(<<"users.write">>)
        /\ CalledBy(response.body.correlation_id, "P_B", operation)


(***************************************************************************)
(* Unknown scopes.                                                         *)
(***************************************************************************)
\* The target's context is complete and its scopes list is empty.
ScopesUnknown(projectId) ==
  /\ IsPresent(ConfiguredContext(projectId))
  /\ Get(ConfiguredContext(projectId)).scopes = <<>>

\* In an ApplyResponse an operation run under a context of unknown scopes
\* is not failed with MISSING_SCOPE: it was dispatched to the adapter or
\* returned from the idempotency cache.
UnknownScopesDispatched ==
  IsApplyResponse(response) =>
    LET c == response.body.correlation_id
        operations == NormalizedOperations(previewed[response.body.plan_id].raw)
        results == response.body.target_results
    IN \A t \in 1..Len(results) : \A o \in 1..Len(operations) :
         (ScopesUnknown(results[t].project_id)
            /\ ~IsProjectAction(operations[o].action)) =>
           /\ IsPresent(results[t].operations[o].error) =>
                Get(results[t].operations[o].error).code # "MISSING_SCOPE"
           /\ \/ CalledBy(c, results[t].project_id, operations[o])
              \/ SkippedBy(c, results[t].project_id, operations[o])

\* Every target of the request runs under a context of unknown scopes.
AllScopesUnknown(raw) ==
  LET targets == resolveRequest(config, raw.targets, raw.target_selector)
  IN /\ targets.ok
     /\ \A t \in 1..Len(targets.value.resolvedTargets) :
          ScopesUnknown(targets.value.resolvedTargets[t].project_id)

\* C14: an empty scopes list means unknown and skips the scope preflight:
\* apply reports MISSING_SCOPE for an operation run under such a context
\* neither as the operation's failure nor as a MutationErrorResponse, and
\* dispatches the operation to the adapter.
C14_EmptyScopesSkipPreflight ==
  /\ UnknownScopesDispatched
  /\ \A raw \in SubmittableExec :
       LET NotMissingScope(out) ==
             \/ out.run # Idle
             \/ ~IsMutationError(Get(out.body))
             \/ Get(out.body).error.code # "MISSING_SCOPE"
       IN AllScopesUnknown(raw) => NotMissingScope(apply(config, World, raw, now))


(***************************************************************************)
(* Targets without an auth context.                                        *)
(***************************************************************************)
\* A per-project map is configured and has no entry for the target, or an
\* entry without endpoint or api_key.
Unconfigured(projectId) ==
  /\ DOMAIN config.projectAuthContexts # {}
  /\ \/ projectId \notin DOMAIN config.projectAuthContexts
     \/ ~Truthy(config.projectAuthContexts[projectId].endpoint)
     \/ ~Truthy(config.projectAuthContexts[projectId].api_key)

CallsByFor(correlationId, projectId) ==
  {i \in 1..Len(adapterCalls) :
     /\ adapterCalls[i].correlation_id = correlationId
     /\ adapterCalls[i].target_project_id = projectId}

\* In an ApplyResponse every operation of an unconfigured target is FAILED
\* with AUTH_CONTEXT_REQUIRED, the target's project_id and its own
\* operation_id, this apply made no adapter call for the target, and the
\* operations that pass the preflight on the targets after it were
\* dispatched or returned from the cache.
UnconfiguredReported ==
  IsApplyResponse(response) =>
    LET c == response.body.correlation_id
        operations == NormalizedOperations(previewed[response.body.plan_id].raw)
        results == response.body.target_results
    IN \A t \in 1..Len(results) :
         Unconfigured(results[t].project_id) =>
           /\ results[t].status = "FAILED"
           /\ Len(results[t].operations) = Len(operations)
           /\ \A o \in 1..Len(operations) :
                LET result == results[t].operations[o]
                IN /\ result.operation_id = operations[o].operation_id
                   /\ result.status = "FAILED"
                   /\ Get(result.error).code = "AUTH_CONTEXT_REQUIRED"
                   /\ Get(result.error).target = results[t].project_id
                   /\ Get(result.error).operation_id = operations[o].operation_id
           /\ CallsByFor(c, results[t].project_id) = {}
           /\ \A t2 \in (t + 1)..Len(results) : \A o2 \in 1..Len(operations) :
                PassesPreflight(results[t2].project_id, operations[o2]) =>
                  \/ CalledBy(c, results[t2].project_id, operations[o2])
                  \/ SkippedBy(c, results[t2].project_id, operations[o2])

\* The invocation went on: it is suspended on the adapter or returned an
\* ApplyResponse.
WentOn(out) == out.run # Idle \/ ~IsMutationError(Get(out.body))

\* With a per-project map an apply that matches its plan reports what fails
\* per operation: neither its start nor the return of an adapter call ends
\* it with a MutationErrorResponse.
UnconfiguredContinues ==
  DOMAIN config.projectAuthContexts # {} =>
    /\ \A raw \in SubmittableExec : WentOn(apply(config, World, raw, now))
    /\ \A slot \in Slots :
         running[slot] # Idle =>
           \A execution \in AdapterOutcomes(Get(running[slot].pending)) :
             WentOn(resume(config, World, running[slot], execution, now))

\* C15: with a per-project auth map, every operation of a resolved target
\* that has no entry in the map, or an entry without endpoint or api_key, is
\* reported FAILED with AUTH_CONTEXT_REQUIRED carrying the target's
\* project_id and the operation's operation_id, no adapter call is made for
\* that target, and execution continues with the next target.
C15_AuthContextRequired == UnconfiguredReported /\ UnconfiguredContinues

\* The targets P_D (no entry) and P_C (no api_key) were failed with
\* AUTH_CONTEXT_REQUIRED and the apply went on to call the adapter for P_A.
C15_Reported ==
  /\ IsApplyResponse(response)
  /\ Len(response.body.target_results) = 3
  /\ Unconfigured(response.body.target_results[1].project_id)
  /\ Unconfigured(response.body.target_results[2].project_id)
  /\ CallsByFor(response.body.correlation_id, "P_A") # {}


(***************************************************************************)
(* Project management channel.                                             *)
(***************************************************************************)
\* The auth contexts this apply called the adapter with for the operation
\* on the target.
ContextsUsed(correlationId, projectId, operation) ==
  {adapterCalls[i].auth_context :
     i \in {j \in CallsFor(projectId, operation) :
              /\ adapterCalls[j].correlation_id = correlationId
              /\ adapterCalls[j].operation.operation_id = operation.operation_id}}

\* No adapter call for a project. operation carries a target's context, an
\* operation outside the namespace is called with the target's own context,
\* and with the management channel disabled a project. operation is FAILED
\* with CAPABILITY_UNAVAILABLE without an adapter call.
ProjectNamespaceGuarded ==
  /\ \A i \in 1..Len(adapterCalls) :
       IF IsProjectAction(adapterCalls[i].operation.action)
         THEN Some(adapterCalls[i].auth_context) = config.managementAuthContext
         ELSE Some(adapterCalls[i].auth_context)
                = ConfiguredContext(adapterCalls[i].target_project_id)
  /\ IsApplyResponse(response) =>
       LET c == response.body.correlation_id
           operations == NormalizedOperations(previewed[response.body.plan_id].raw)
           results == response.body.target_results
       IN \A t \in 1..Len(results) : \A o \in 1..Len(operations) :
            (/\ IsProjectAction(operations[o].action)
             /\ IsPresent(ConfiguredContext(results[t].project_id))
             /\ ~config.projectManagementAvailable) =>
              /\ results[t].operations[o].status = "FAILED"
              /\ Get(results[t].operations[o].error).code = "CAPABILITY_UNAVAILABLE"
              /\ ContextsUsed(c, results[t].project_id, operations[o]) = {}

\* With the management channel enabled a project. operation whose scopes
\* the management context has is called with the management context.
ManagementContextUsed ==
  IsApplyResponse(response) =>
    LET c == response.body.correlation_id
        operations == NormalizedOperations(previewed[response.body.plan_id].raw)
        results == response.body.target_results
    IN \A t \in 1..Len(results) : \A o \in 1..Len(operations) :
         (/\ IsProjectAction(operations[o].action)
          /\ IsPresent(ConfiguredContext(results[t].project_id))
          /\ config.projectManagementAvailable
          /\ Minus(RequiredScopes(operations[o]),
                   Get(config.managementAuthContext).scopes) = <<>>) =>
           ContextsUsed(c, results[t].project_id, operations[o])
             = {Get(config.managementAuthContext)}

\* C16: an operation in the project. namespace never runs under a target
\* project's credentials: with project management disabled it fails with
\* CAPABILITY_UNAVAILABLE and no adapter call; otherwise the adapter is
\* called with the configured management auth context, whose scopes the
\* scope preflight of the operation is evaluated against; an operation
\* outside the namespace is called with the target's own context.
C16_ProjectNamespace == ProjectNamespaceGuarded /\ ManagementContextUsed

\* With the management channel disabled, project.create was failed with
\* CAPABILITY_UNAVAILABLE and database.create was called with the target's
\* context.
C16_Disabled ==
  /\ IsApplyResponse(response)
  /\ ~config.projectManagementAvailable
  /\ \E o \in 1..Len(response.body.target_results[1].operations) :
       LET result == response.body.target_results[1].operations[o]
       IN /\ IsPresent(result.error)
          /\ Get(result.error).code = "CAPABILITY_UNAVAILABLE"
  /\ CallsByFor(response.body.correlation_id, "P_A") # {}


(***************************************************************************)
(* HTTP adapter: the request of an operation.                              *)
(***************************************************************************)
\* params[key]: the member's value, undefined when there is none.
Member(params, key) ==
  IF \E i \in 1..Len(params.entries) : params.entries[i][1] = key
    THEN params.entries[CHOOSE i \in 1..Len(params.entries) :
                          params.entries[i][1] = key][2]
    ELSE JUndefined

\* typeof value === "string" && value.length > 0
IsNonEmptyString(value) == value.t = "str" /\ value.s # ""

RECURSIVE JoinWith(_, _)
JoinWith(parts, separator) ==
  IF parts = <<>> THEN ""
  ELSE IF Len(parts) = 1 THEN parts[1]
  ELSE parts[1] \o separator \o JoinWith(Tail(parts), separator)

readOptionalString(params, keys) ==
  LET found == SeqFilter(LAMBDA key : IsNonEmptyString(Member(params, key)), keys)
  IN IF found = <<>> THEN Absent ELSE Some(Member(params, found[1]).s)

\* readString giving the empty string for a parameter that is missing.
readStringOrEmpty(params, keys) ==
  IF IsPresent(readOptionalString(params, keys))
    THEN Ok(Get(readOptionalString(params, keys)))
    ELSE Ok("")

readString(params, keys) ==
  IF IsPresent(readOptionalString(params, keys))
    THEN Ok(Get(readOptionalString(params, keys)))
    ELSE Fail(AppwriteMcpError("VALIDATION_ERROR",
                "missing required parameter: one of " \o JoinWith(keys, ", "),
                "params", "*"))

\* encodeURIComponent on the parameter values of the model: "/" is the one
\* character in them that is escaped.
encodeURIComponent(s) == IF s = "fn/1" THEN "fn%2F1" ELSE s

HttpOperationRequest(method, path, payload, omitProjectHeader) ==
  [method |-> method, path |-> path, payload |-> payload,
   omitProjectHeader |-> omitProjectHeader]

\* A request whose path holds one required identifier.
WithId(read, Build(_)) == IF read.ok THEN Ok(Build(read.value)) ELSE read

\* The fields of auth.users.update in the order they are tried: the
\* field, the params member read, its type, the method, the path's end and
\* the body member written.
UserUpdateFields ==
  <<<<"email", "email", "str", "PATCH", "/email", "email">>,
    <<"name", "name", "str", "PATCH", "/name", "name">>,
    <<"status", "status", "bool", "PATCH", "/status", "status">>,
    <<"password", "password", "str", "PATCH", "/password", "password">>,
    <<"phone", "phone", "str", "PATCH", "/phone", "number">>,
    <<"emailVerification", "emailVerification", "bool", "PATCH", "/verification",
      "emailVerification">>,
    <<"phoneVerification", "phoneVerification", "bool", "PATCH",
      "/verification/phone", "phoneVerification">>,
    <<"mfa", "mfa", "bool", "PATCH", "/mfa", "mfa">>,
    <<"labels", "labels", "arr", "PUT", "/labels", "labels">>,
    <<"prefs", "prefs", "obj", "PATCH", "/prefs", "prefs">> >>

\* buildAuthUsersUpdateRequest trying the fields in the reverse order.
buildAuthUsersUpdateRequestLastFirst(operation, expectedField) ==
  LET userId == readString(operation.params, <<"user_id">>)
      Usable(field) ==
        /\ expectedField \in {"auto", field[1]}
        /\ Member(operation.params, field[2]).t = field[3]
      usable == SeqFilter(Usable, UserUpdateFields)
  IN IF ~userId.ok THEN userId
     ELSE IF usable # <<>>
       THEN Ok(HttpOperationRequest(usable[Len(usable)][4],
                 "users/" \o encodeURIComponent(userId.value) \o usable[Len(usable)][5],
                 [body |-> JObj(<< <<usable[Len(usable)][6],
                                     Member(operation.params, usable[Len(usable)][2])>> >>)],
                 FALSE))
     ELSE Fail(AppwriteMcpError("VALIDATION_ERROR",
                 "auth.users.update requires one supported field",
                 "params", operation.operation_id))

buildAuthUsersUpdateRequest(operation, expectedField) ==
  LET userId == readString(operation.params, <<"user_id">>)
      Usable(field) ==
        /\ expectedField \in {"auto", field[1]}
        /\ Member(operation.params, field[2]).t = field[3]
      usable == SeqFilter(Usable, UserUpdateFields)
  IN IF ~userId.ok THEN userId
     ELSE IF usable # <<>>
       THEN Ok(HttpOperationRequest(usable[1][4],
                 "users/" \o encodeURIComponent(userId.value) \o usable[1][5],
                 [body |-> JObj(<< <<usable[1][6],
                                     Member(operation.params, usable[1][2])>> >>)],
                 FALSE))
     ELSE Fail(AppwriteMcpError("VALIDATION_ERROR",
                 "auth.users.update requires one supported field",
                 "params", operation.operation_id))

\* {...params, projectId, teamId, name}
toProjectCreateBody(params) ==
  LET projectId == readString(params, <<"projectId", "project_id">>)
      teamId == readString(params, <<"teamId", "team_id">>)
      name == readString(params, <<"name">>)
      Other(e) == e[1] \notin {"projectId", "teamId", "name"}
  IN IF ~projectId.ok THEN projectId
     ELSE IF ~teamId.ok THEN teamId
     ELSE IF ~name.ok THEN name
     ELSE Ok(JObj(SeqFilter(Other, params.entries)
                  \o << <<"projectId", JStr(projectId.value)>>,
                        <<"teamId", JStr(teamId.value)>>,
                        <<"name", JStr(name.value)>> >>))

toFunctionDeploymentFormData(operation) ==
  IF Member(operation.params, "code").t # "str"
    THEN Fail(AppwriteMcpError("VALIDATION_ERROR",
                "function.deployment.trigger requires code string",
                "params", operation.operation_id))
    ELSE Ok([formData |-> Member(operation.params, "code").s])

\* asQuery: the members that are strings, numbers or booleans.
asQuery(params) ==
  [query |-> JObj(SeqFilter(LAMBDA e : e[2].t \in {"str", "num", "bool"},
                            params.entries))]

UserUpdateActions ==
  {"auth.users.update", "auth.users.update.email_verification",
   "auth.users.update.phone_verification"}
    \cup {"auth.users.update." \o field :
            field \in {"email", "name", "status", "password", "phone", "mfa",
                       "labels", "prefs"}}

UserUpdateField(action) ==
  CASE action = "auth.users.update" -> "auto"
    [] action = "auth.users.update.email_verification" -> "emailVerification"
    [] action = "auth.users.update.phone_verification" -> "phoneVerification"
    [] OTHER -> CHOOSE field \in {"email", "name", "status", "password", "phone",
                                  "mfa", "labels", "prefs"} :
                  action = "auth.users.update." \o field


buildRequest(operation) ==
  LET params == operation.params
      Body == [body |-> params]
      None == [none |-> TRUE]
      databaseId == readString(params, <<"database_id">>)
      functionId == readString(params, <<"function_id">>)
  IN CASE operation.action = "project.create" ->
            LET body == toProjectCreateBody(params)
            IN IF ~body.ok THEN body
               ELSE Ok(HttpOperationRequest("POST", "projects",
                                            [body |-> body.value], TRUE))
       [] operation.action = "project.delete" ->
            WithId(readString(params, <<"projectId", "project_id", "delete_project_id">>),
                   LAMBDA id : HttpOperationRequest("DELETE",
                                 "projects/" \o encodeURIComponent(id), None, TRUE))
       [] operation.action = "database.list" ->
            Ok(HttpOperationRequest("GET", "databases", asQuery(params), FALSE))
       [] operation.action = "database.create" ->
            Ok(HttpOperationRequest("POST", "databases", Body, FALSE))
       [] operation.action = "database.upsert_collection" ->
            LET collectionId == readOptionalString(params, <<"collection_id">>)
            IN WithId(databaseId,
                 LAMBDA id :
                   IF IsPresent(collectionId)
                     THEN HttpOperationRequest("PUT",
                            "databases/" \o encodeURIComponent(id) \o "/collections/"
                              \o encodeURIComponent(Get(collectionId)), Body, FALSE)
                     ELSE HttpOperationRequest("POST",
                            "databases/" \o encodeURIComponent(id) \o "/collections",
                            Body, FALSE))
       [] operation.action = "database.delete_collection" ->
            LET collectionId == readString(params, <<"collection_id">>)
            IN IF ~databaseId.ok THEN databaseId
               ELSE WithId(collectionId,
                      LAMBDA id : HttpOperationRequest("DELETE",
                        "databases/" \o encodeURIComponent(databaseId.value)
                          \o "/collections/" \o encodeURIComponent(id), None, FALSE))
       [] operation.action = "auth.users.list" ->
            Ok(HttpOperationRequest("GET", "users", asQuery(params), FALSE))
       [] operation.action = "auth.users.create" ->
            Ok(HttpOperationRequest("POST", "users", Body, FALSE))
       [] operation.action = "function.list" ->
            Ok(HttpOperationRequest("GET", "functions", asQuery(params), FALSE))
       [] operation.action = "function.create" ->
            Ok(HttpOperationRequest("POST", "functions", Body, FALSE))
       [] operation.action = "function.update" ->
            WithId(functionId,
                   LAMBDA id : HttpOperationRequest("PUT",
                                 "functions/" \o encodeURIComponent(id), Body, FALSE))
       [] operation.action = "function.deployment.trigger" ->
            LET formData == toFunctionDeploymentFormData(operation)
            IN IF ~functionId.ok THEN functionId
               ELSE IF ~formData.ok THEN formData
               ELSE Ok(HttpOperationRequest("POST",
                         "functions/" \o encodeURIComponent(functionId.value)
                           \o "/deployments", formData.value, FALSE))
       [] operation.action = "function.execution.trigger" ->
            WithId(functionId,
                   LAMBDA id : HttpOperationRequest("POST",
                                 "functions/" \o encodeURIComponent(id) \o "/executions",
                                 Body, FALSE))
       [] operation.action = "function.execution.status" ->
            LET executionId == readString(params, <<"execution_id">>)
            IN IF ~functionId.ok THEN functionId
               ELSE WithId(executionId,
                      LAMBDA id : HttpOperationRequest("GET",
                        "functions/" \o encodeURIComponent(functionId.value)
                          \o "/executions/" \o encodeURIComponent(id), None, FALSE))
       [] operation.action \in UserUpdateActions ->
            buildAuthUsersUpdateRequest(operation, UserUpdateField(operation.action))
       [] OTHER ->
            Fail(AppwriteMcpError("VALIDATION_ERROR",
                   "unsupported action: " \o operation.action, "operation", "*"))


(***************************************************************************)
(* HTTP adapter: the attempts of one executeOperation.                     *)
(***************************************************************************)
DEFAULT_TIMEOUT_MS == 10000
DEFAULT_RETRY_STATUS_CODES == {408, 425, 429, 500, 502, 503, 504}

HttpAppwriteAdapterOptions(maxRetries, retryStatusCodes) ==
  [timeoutMs |-> DEFAULT_TIMEOUT_MS, maxRetries |-> maxRetries,
   retryStatusCodes |-> retryStatusCodes]

\* canRetryRequest holding every request for retryable.
canRetryRequestAlways(request, operation) == TRUE

canRetryRequest(request, operation) ==
  request.method = "GET" \/ IsPresent(operation.idempotency_key)

\* What fetch and response.text() throw is no AppwriteMcpError.
\* isRetryableError counting the abort of the timeout only.
isRetryableErrorAbortOnly(error) == error.name = "AbortError"

isRetryableError(error) == error.name # "AppwriteMcpError"

extractRuntimeMessage(options, error) ==
  IF error.name = "AbortError"
    THEN "Appwrite request timed out after " \o ToString(options.timeoutMs) \o "ms"
  ELSE IF error.message # "" THEN "Appwrite request failed: " \o error.message
  ELSE "Appwrite request failed due to unexpected runtime error"

\* parseBody: an empty text is {}, a text that is no JSON is {raw: text}.
parseBody(text) ==
  IF text = "" THEN JObj(<<>>)
  ELSE IF text = "7" THEN JNum(7)
  ELSE IF text = "{\"message\":\"not found\"}"
    THEN JObj(<< <<"message", JStr("not found")>> >>)
  ELSE JObj(<< <<"raw", JStr(text)>> >>)

extractErrorMessage(body, statusCode) ==
  IF body.t = "obj" /\ Member(body, "message").t = "str"
    THEN "Appwrite " \o ToString(statusCode) \o ": " \o Member(body, "message").s
    ELSE "Appwrite request failed with status " \o ToString(statusCode)

\* new URL(path, base) throws a TypeError for a base that is no URL.
IsUrl(endpoint) == endpoint # "not a url"

AdapterError(code, message, input, retryable) ==
  [ok |-> FALSE,
   error |-> [AppwriteMcpError(code, message, input.target_project_id,
                               input.operation.operation_id)
              EXCEPT !.retryable = retryable]]

\* response.ok
IsOkStatus(status) == status \in 200..299

\* The adapter while it executes one operation: the requests sent so far
\* with how each ended, the last one still open while stage is "fetching".
HttpRun(options, input) ==
  [stage |-> "input", options |-> options, input |-> input, request |-> Absent,
   maxAttempts |-> 0, attempt |-> 0, attempts |-> <<>>, result |-> Absent]

HttpReturn(run, result) == [run EXCEPT !.stage = "returned", !.result = Some(result)]

\* The loop of performHttpRequest at the top of its body: the next request
\* is sent, or the attempts are used up.
nextAttempt(run) ==
  IF run.attempt + 1 <= run.maxAttempts
    THEN [run EXCEPT !.stage = "fetching", !.attempt = @ + 1]
    ELSE HttpReturn(run, AdapterError("INTERNAL_ERROR", "request retries exhausted",
                                      run.input, TRUE))

\* performHttpRequest up to the first request.
performHttpRequest(run, request) ==
  IF ~Truthy(run.input.auth_context.endpoint)
    THEN HttpReturn(run, AdapterError("AUTH_CONTEXT_REQUIRED",
                           "missing endpoint in auth context", run.input, FALSE))
  ELSE IF ~IsUrl(Get(run.input.auth_context.endpoint))
    THEN HttpReturn(run, AdapterError("INTERNAL_ERROR", "unexpected adapter error",
                                      run.input, TRUE))
  ELSE nextAttempt([run EXCEPT
         !.request = Some(request),
         !.maxAttempts = IF canRetryRequest(request, run.input.operation)
                           THEN run.options.maxRetries + 1 ELSE 1])

\* executeOperation up to the first request.
executeOperation(run) ==
  LET request == buildRequest(run.input.operation)
  IN IF ~Truthy(run.input.auth_context.endpoint)
          \/ ~Truthy(run.input.auth_context.api_key)
       THEN HttpReturn(run, AdapterError("AUTH_CONTEXT_REQUIRED",
                              "missing endpoint/api key in auth context",
                              run.input, FALSE))
     ELSE IF ~request.ok
       THEN HttpReturn(run, [ok |-> FALSE, error |-> toStandardError(request.error)])
     ELSE performHttpRequest(run, request.value)

\* The body of the loop from the end of the request on.
afterAttempt(run, outcome) ==
  LET ended == [run EXCEPT !.attempts = Append(@, outcome)]
      mayRetry == run.attempt < run.maxAttempts
  IN IF outcome.kind = "response"
       THEN LET parsedBody == parseBody(outcome.text)
                retryableStatus == outcome.status \in run.options.retryStatusCodes
            IN IF ~IsOkStatus(outcome.status)
                 THEN IF retryableStatus /\ mayRetry THEN nextAttempt(ended)
                      ELSE HttpReturn(ended,
                             AdapterError("INTERNAL_ERROR",
                               extractErrorMessage(parsedBody, outcome.status),
                               run.input, retryableStatus))
               ELSE HttpReturn(ended,
                      [ok |-> TRUE,
                       data |-> IF parsedBody.t = "obj" THEN parsedBody
                                ELSE JObj(<< <<"value", parsedBody>> >>)])
     ELSE IF isRetryableError(outcome.error) /\ mayRetry THEN nextAttempt(ended)
     ELSE HttpReturn(ended,
            AdapterError("INTERNAL_ERROR",
              extractRuntimeMessage(run.options, outcome.error),
              run.input, isRetryableError(outcome.error)))


MaxHttpRetries == 2   \* largest maxRetries an adapter of the model has

\* Parameters with which the request of the action can be built.
HttpParams(action) ==
  LET Str(key, s) == <<key, JStr(s)>>
      user == Str("user_id", "u1")
  IN JObj(
       CASE action = "project.create" ->
              <<Str("project_id", "P_N"), Str("team_id", "t1"), Str("name", "New")>>
         [] action = "project.delete" -> <<Str("project_id", "P_N")>>
         [] action \in {"database.list", "auth.users.list", "function.list"} ->
              <<Str("search", "a"), <<"limit", JNum(5)>> >>
         [] action = "database.create" ->
              <<Str("database_id", "db-main"), Str("name", "Main DB")>>
         [] action = "database.upsert_collection" ->
              <<Str("database_id", "db-main"), Str("collection_id", "c1")>>
         [] action = "database.delete_collection" ->
              <<Str("database_id", "db-main"), Str("collection_id", "c1")>>
         [] action = "auth.users.create" -> <<user, Str("email", "a@b.example")>>
         [] action \in {"auth.users.update", "auth.users.update.name"} ->
              <<user, Str("name", "Ada")>>
         [] action = "auth.users.update.email" -> <<user, Str("email", "a@b.example")>>
         [] action = "auth.users.update.status" -> <<user, <<"status", JBool(TRUE)>> >>
         [] action = "auth.users.update.password" -> <<user, Str("password", "pw")>>
         [] action = "auth.users.update.phone" -> <<user, Str("phone", "+1")>>
         [] action = "auth.users.update.email_verification" ->
              <<user, <<"emailVerification", JBool(TRUE)>> >>
         [] action = "auth.users.update.phone_verification" ->
              <<user, <<"phoneVerification", JBool(TRUE)>> >>
         [] action = "auth.users.update.mfa" -> <<user, <<"mfa", JBool(FALSE)>> >>
         [] action = "auth.users.update.labels" ->
              <<user, <<"labels", JArr(<<JStr("vip")>>)>> >>
         [] action = "auth.users.update.prefs" -> <<user, <<"prefs", JObj(<<>>)>> >>
         [] action = "function.create" ->
              <<Str("function_id", "fn/1"), Str("name", "f")>>
         [] action = "function.deployment.trigger" ->
              <<Str("function_id", "fn/1"), Str("code", "x")>>
         [] action = "function.execution.status" ->
              <<Str("function_id", "fn/1"), Str("execution_id", "e1")>>
         [] OTHER -> <<Str("function_id", "fn/1")>>)

Keys(params) == {params.entries[i][1] : i \in 1..Len(params.entries)}

Without(params, key) ==
  JObj(SeqFilter(LAMBDA e : e[1] # key, params.entries))

WithMember(params, key, value) ==
  JObj([i \in 1..Len(params.entries) |->
          IF params.entries[i][1] = key THEN <<key, value>> ELSE params.entries[i]])

\* The parameters of the action as they are, with one member left out, and
\* with one member of another type or empty.
ParamVariants(action) ==
  {HttpParams(action)}
    \cup {Without(HttpParams(action), key) : key \in Keys(HttpParams(action))}
    \cup {WithMember(HttpParams(action), key, value) :
            key \in Keys(HttpParams(action)), value \in {JStr(""), JNum(1)}}

ActionDomain(action) ==
  IF action \in {"project.create", "project.delete"} THEN "project"
  ELSE IF action \in {"database.list", "database.create",
                      "database.upsert_collection", "database.delete_collection"}
    THEN "database"
  ELSE IF action \in {"function.list", "function.create", "function.update",
                      "function.deployment.trigger", "function.execution.trigger",
                      "function.execution.status"}
    THEN "function"
  ELSE "auth"

HttpOperations ==
  {[Operation("op-h", ActionDomain(action), action, params)
    EXCEPT !.idempotency_key = key] :
     <<action, params>> \in UNION {{<<a, p>> : p \in ParamVariants(a)} : a \in Actions},
     key \in {Absent, Some("k1")}}

\* Auth contexts: complete, without endpoint, with an empty api_key, and
\* with an endpoint that is no URL.
HttpAuthContexts ==
  {FallbackAuth,
   AuthContext(Absent, FallbackAuth.api_key, AllScopes),
   AuthContext(FallbackAuth.endpoint, Some(""), AllScopes),
   AuthContext(Some("not a url"), FallbackAuth.api_key, AllScopes)}

HttpOptions ==
  {HttpAppwriteAdapterOptions(maxRetries, retryStatusCodes) :
     maxRetries \in 0..MaxHttpRetries,
     retryStatusCodes \in {DEFAULT_RETRY_STATUS_CODES, {200, 404}}}

\* How a request can end: a response whose body was read, the abort of the
\* timeout, or an exception of the transport.
HttpOutcomes ==
  {[kind |-> "response", status |-> 200, text |-> "7"],
   [kind |-> "response", status |-> 204, text |-> ""],
   [kind |-> "response", status |-> 404, text |-> "{\"message\":\"not found\"}"],
   [kind |-> "response", status |-> 503, text |-> "busy"],
   [kind |-> "error",
    error |-> [name |-> "AbortError", message |-> "This operation was aborted"]],
   [kind |-> "error", error |-> [name |-> "TypeError", message |-> "fetch failed"]]}

InitHttp ==
  /\ config = PureConfig
  /\ clock = 1
  /\ sequence = 0
  /\ planStore = <<>>
  /\ auditLog = <<>>
  /\ idempotency = <<>>
  /\ tokens = {}
  /\ adapterCalls = <<>>
  /\ running = [s \in Slots |-> Idle]
  /\ response = NoResponse
  /\ previewed = <<>>
  /\ probe \in {HttpRun(options, AdapterInput("P_A", operation, authContext, "corr-1")) :
                  options \in HttpOptions, operation \in HttpOperations,
                  authContext \in HttpAuthContexts}

HttpExecute ==
  /\ probe.stage = "input"
  /\ probe' = executeOperation(probe)
  /\ ServiceUnchanged

HttpAttemptEnds ==
  /\ probe.stage = "fetching"
  /\ \E outcome \in HttpOutcomes : probe' = afterAttempt(probe, outcome)
  /\ ServiceUnchanged

NextHttp == HttpExecute \/ HttpAttemptEnds

SpecHttp == InitHttp /\ [][NextHttp]_vars

\* fetchWithTimeout aborts a request that has not answered within
\* timeoutMs, so every request ends, and nothing keeps executeOperation
\* from taking its next step.
SpecHttpLive == InitHttp /\ [][NextHttp]_vars /\ WF_vars(NextHttp)


(***************************************************************************)
(* Retry policy.                                                           *)
(***************************************************************************)
\* The request is one the adapter may repeat: a GET, or the request of an
\* operation with an idempotency_key.
RetryEligible ==
  \/ Get(probe.request).method = "GET"
  \/ probe.input.operation.idempotency_key # Absent

\* The attempt ended in a response with a status of the retry set, in a
\* timeout or in an exception of the transport.
RetryTrigger(outcome) ==
  \/ outcome.kind = "error"
  \/ outcome.kind = "response" /\ outcome.status \in probe.options.retryStatusCodes

\* C17: one executeOperation sends at most maxRetries + 1 requests when the
\* method is GET or the operation has an idempotency_key and exactly one
\* otherwise; a request is followed by another one only if it ended in a
\* status of the retry set, a timeout or a transport exception, never if it
\* ended in a 2xx response or in a status outside the retry set.
C17_RetryPolicy ==
  probe.attempt > 0 =>
    /\ probe.attempt <= IF RetryEligible THEN probe.options.maxRetries + 1 ELSE 1
    /\ \A i \in 1..(probe.attempt - 1) :
         /\ RetryTrigger(probe.attempts[i])
         /\ probe.attempts[i].kind = "response" =>
              probe.attempts[i].status \notin 200..299

\* A POST with an idempotency_key was sent three times under maxRetries 2:
\* after a 503 and after a timeout, and returned after a 2xx response.
C17_Witness ==
  /\ probe.stage = "returned"
  /\ probe.options.maxRetries = 2
  /\ probe.attempt = 3
  /\ Get(probe.request).method = "POST"
  /\ probe.input.operation.idempotency_key = Some("k1")
  /\ probe.attempts[1].kind = "response" /\ probe.attempts[1].status = 503
  /\ probe.attempts[2].kind = "error"
  /\ probe.attempts[3].kind = "response" /\ probe.attempts[3].status = 200

(***************************************************************************)
(* Adapter outcome.                                                        *)
(***************************************************************************)
\* What executeOperation returns once a request was sent: ok with data iff
\* a request ended in a 2xx response, else INTERNAL_ERROR, retryable iff
\* the last request ended in a retry trigger.
OutcomeOfAttempts ==
  (probe.stage = "returned" /\ probe.attempt > 0) =>
    LET result == Get(probe.result)
        last == probe.attempts[Len(probe.attempts)]
    IN /\ Len(probe.attempts) = probe.attempt
       /\ result.ok <=> \E i \in 1..Len(probe.attempts) :
                          /\ probe.attempts[i].kind = "response"
                          /\ probe.attempts[i].status \in 200..299
       /\ result.ok => "data" \in DOMAIN result /\ result.data.t = "obj"
       /\ ~result.ok =>
            /\ result.error.code = "INTERNAL_ERROR"
            /\ result.error.retryable <=> RetryTrigger(last)

UserUpdateMembers ==
  {"email", "name", "status", "password", "phone", "emailVerification",
   "phoneVerification", "mfa", "labels", "prefs"}

\* The parameters the request of an action needs: of each group of names
\* one must be there.
RequiredParameters(action) ==
  CASE action = "project.create" ->
         {{"projectId", "project_id"}, {"teamId", "team_id"}, {"name"}}
    [] action = "project.delete" -> {{"projectId", "project_id", "delete_project_id"}}
    [] action = "database.upsert_collection" -> {{"database_id"}}
    [] action = "database.delete_collection" -> {{"database_id"}, {"collection_id"}}
    [] action = "auth.users.update" -> {{"user_id"}, UserUpdateMembers}
    [] action = "auth.users.update.email_verification" ->
         {{"user_id"}, {"emailVerification"}}
    [] action = "auth.users.update.phone_verification" ->
         {{"user_id"}, {"phoneVerification"}}
    [] action \in UserUpdateActions ->
         {{"user_id"}, {member \in UserUpdateMembers :
                          action = "auth.users.update." \o member}}
    [] action \in {"function.update", "function.execution.trigger"} -> {{"function_id"}}
    [] action = "function.deployment.trigger" -> {{"function_id"}, {"code"}}
    [] action = "function.execution.status" -> {{"function_id"}, {"execution_id"}}
    [] OTHER -> {}

ParameterAbsent ==
  \E group \in RequiredParameters(probe.input.operation.action) :
    group \cap Keys(probe.input.operation.params) = {}

LacksAuth ==
  \/ probe.input.auth_context.endpoint \in {Absent, Some("")}
  \/ probe.input.auth_context.api_key \in {Absent, Some("")}

\* C19: if a required parameter of the action is absent, or the auth context
\* lacks endpoint or api_key, executeOperation sends no request, whatever
\* the retry configuration, and returns a failure with retryable false:
\* AUTH_CONTEXT_REQUIRED for the auth context, VALIDATION_ERROR for the
\* parameter.
C19_ValidationFirst ==
  (LacksAuth \/ ParameterAbsent) =>
    /\ probe.attempt = 0
    /\ probe.stage # "fetching"
    /\ probe.stage = "returned" =>
         /\ ~Get(probe.result).ok
         /\ ~Get(probe.result).error.retryable
         /\ Get(probe.result).error.code =
              IF LacksAuth THEN "AUTH_CONTEXT_REQUIRED" ELSE "VALIDATION_ERROR"

\* A retryable operation under maxRetries 2 whose required parameter is
\* absent returned VALIDATION_ERROR without a request.
C19_Witness ==
  /\ probe.stage = "returned"
  /\ ParameterAbsent /\ ~LacksAuth
  /\ probe.options.maxRetries = 2
  /\ probe.input.operation.idempotency_key = Some("k1")
  /\ probe.input.operation.action = "function.execution.status"
  /\ Get(probe.result).error.code = "VALIDATION_ERROR"
  /\ probe.attempt = 0


(***************************************************************************)
(* Redaction check: operations whose params carry secrets, an adapter that *)
(* answers with secrets.                                                   *)
(***************************************************************************)
\* Params as in ORC-FX-011, with secrets in a list and in a nested object.
SecretParams ==
  JObj(<< <<"database_id", JStr("db-main")>>,
          <<"apiKey", JStr("should-not-leak")>>,
          <<"token", JStr("bearer abcdef")>>,
          <<"notes", JArr(<<JStr("sk_abcdef123456"), JStr("plain")>>)>>,
          <<"owner", JObj(<< <<"client_secret", JObj(<< <<"v", JNum(1)>> >>)>>,
                             <<"header", JStr("bearer abcdef")>> >>)>> >>)

RedactedParams ==
  JObj(<< <<"database_id", JStr("db-main")>>,
          <<"apiKey", JStr(REDACTED)>>,
          <<"token", JStr(REDACTED)>>,
          <<"notes", JArr(<<JStr(REDACTED), JStr("plain")>>)>>,
          <<"owner", JObj(<< <<"client_secret", JStr(REDACTED)>>,
                             <<"header", JStr(REDACTED)>> >>)>> >>)

OpSecretKeyed ==
  [Operation("op-secret", "database", "database.create", SecretParams)
   EXCEPT !.idempotency_key = Some("sk_abcdef123456")]

OpSecretPlain == Operation("op-plain", "database", "database.create", SecretParams)

ReqSecretBoth ==
  RawInput("tester", <<Target("P_A"), Target("P_B")>>, <<OpSecretKeyed, OpSecretPlain>>)
ReqSecretOne == RawInput("tester", <<Target("P_A")>>, <<OpSecretKeyed>>)

RedactPool == {ReqSecretBoth, ReqSecretOne}

\* What the adapter answers with: the created resource with the secrets the
\* upstream put in it, or a failure whose strings quote a credential and
\* which names neither target nor operation.
SecretData(input) ==
  JObj(<< <<"id", JStr("res-" \o input.correlation_id)>>,
          <<"api_key", JStr("standard_0123")>>,
          <<"keys", JArr(<<JObj(<< <<"value", JStr("sk_abcdef123456")>> >>)>>)>>,
          <<"hint", JStr("bearer abcdef")>> >>)

RedactedData(correlationId) ==
  JObj(<< <<"id", JStr("res-" \o correlationId)>>,
          <<"api_key", JStr(REDACTED)>>,
          <<"keys", JArr(<<JObj(<< <<"value", JStr(REDACTED)>> >>)>>)>>,
          <<"hint", JStr(REDACTED)>> >>)

SecretOutcomes(input) ==
  {[ok |-> TRUE, data |-> SecretData(input)],
   [ok |-> FALSE,
    error |-> [AppwriteMcpError("INTERNAL_ERROR",
                 "upstream leaked token bearer abcdef", "", "")
               EXCEPT !.retryable = TRUE,
                      !.remediation = Some("bearer abcdef")]]}

AdapterReturnsSecrets(slot) ==
  /\ running[slot] # Idle
  /\ \E execution \in SecretOutcomes(Get(running[slot].pending)) :
       Commit(resume(config, World, running[slot], execution, now),
              "changes.apply", slot)
  /\ UNCHANGED <<config, clock, probe>>

InitRedact ==
  /\ config = ServiceOptions(FallbackAuth, NoProjectAuth, FALSE)
  /\ clock = 1
  /\ sequence = 0
  /\ planStore = <<>>
  /\ auditLog = <<>>
  /\ idempotency = <<>>
  /\ tokens = {}
  /\ adapterCalls = <<>>
  /\ running = [s \in Slots |-> Idle]
  /\ response = NoResponse
  /\ previewed = <<>>
  /\ probe = <<>>

NextRedact ==
  \/ \E raw \in RedactPool : PreviewWithin(MaxExecSequence, MaxExecPlans, raw)
  \/ \E p \in DOMAIN planStore :
       ApplyWithin(MaxExecSequence, FreeSlot, WithPlan(previewed[p].raw, PlanRef(p)))
  \/ \E slot \in Slots : AdapterReturnsSecrets(slot)

SpecRedact == InitRedact /\ [][NextRedact]_vars

(***************************************************************************)
(* C20: redaction on every outbound path.                                  *)
(***************************************************************************)
\* A value under a secret-named key that is not the literal, or a
\* secret-patterned string value, somewhere in a JSON value.
RECURSIVE Unredacted(_)
Unredacted(value) ==
  CASE value.t = "str" -> value.s \in SecretStrings
    [] value.t = "arr" -> \E i \in 1..Len(value.items) : Unredacted(value.items[i])
    [] value.t = "obj" ->
         \E i \in 1..Len(value.entries) :
           IF value.entries[i][1] \in SecretKeys
             THEN value.entries[i][2] # JStr(REDACTED)
             ELSE Unredacted(value.entries[i][2])
    [] OTHER -> FALSE

UnredactedError(e) ==
  \/ {e.code, e.message, e.target, e.operation_id} \cap SecretStrings # {}
  \/ IsPresent(e.remediation) /\ Get(e.remediation) \in SecretStrings
  \/ IsPresent(e.missing_scopes) /\ Range(Get(e.missing_scopes)) \cap SecretStrings # {}
  \/ IsPresent(e.supported_transports)
       /\ Range(Get(e.supported_transports)) \cap SecretStrings # {}

UnredactedResult(result) ==
  \/ IsPresent(result.data) /\ Unredacted(Get(result.data))
  \/ IsPresent(result.error) /\ UnredactedError(Get(result.error))

UnredactedDetails(details) ==
  /\ IsPresent(details)
  /\ LET d == Get(details)
     IN CASE d.kind = "params" -> Unredacted(d.params)
          [] d.kind = "error" -> UnredactedError(d.error)
          [] d.kind = "idempotency" -> d.idempotency_key \in SecretStrings
          [] OTHER -> FALSE

\* The operation results of the last apply's ApplyResponse.
ResultsReturned ==
  IF response.tool = "changes.apply" /\ ~IsMutationError(response.body)
    THEN UNION {Range(response.body.target_results[t].operations) :
                  t \in 1..Len(response.body.target_results)}
    ELSE {}

\* C20: no operation result of an ApplyResponse, no error of a
\* MutationErrorResponse, no result of the idempotency cache and no details
\* of a stored audit record holds a value under a secret-named key other
\* than [REDACTED] or a secret-patterned string value, whatever secrets the
\* operation params and the adapter's answers carried.
C20_Redaction ==
  /\ \A result \in ResultsReturned : ~UnredactedResult(result)
  /\ IsMutationError(response.body) => ~UnredactedError(response.body.error)
  /\ \A key \in DOMAIN idempotency : ~UnredactedResult(idempotency[key])
  /\ \A i \in 1..Len(auditLog) : ~UnredactedDetails(auditLog[i].details)

\* An apply answered with secrets has returned: one operation succeeded with
\* the data redacted in the result and in the cache, one failed with every
\* string of the error redacted, and the audit log holds the redacted
\* params, the redacted error and the redacted idempotency key of a skip.
C20_Witness ==
  /\ \E result \in ResultsReturned :
       /\ result.status = "SUCCESS"
       /\ result.data = Some(RedactedData(response.body.correlation_id))
  /\ \E result \in ResultsReturned :
       /\ result.status = "FAILED"
       /\ Get(result.error).message = REDACTED
       /\ Get(result.error).remediation = Some(REDACTED)
       /\ Get(result.error).operation_id = result.operation_id
  /\ \E key \in DOMAIN idempotency :
       \E c \in {a.correlation_id : a \in Range(adapterCalls)} :
         idempotency[key].data = Some(RedactedData(c))
  /\ \E i \in 1..Len(auditLog) :
       auditLog[i].details = Some([kind |-> "params", params |-> RedactedParams])
  /\ \E i \in 1..Len(auditLog) :
       /\ auditLog[i].outcome = "skipped"
       /\ auditLog[i].details =
            Some([kind |-> "idempotency", idempotency_key |-> REDACTED])


(***************************************************************************)
(* C21: destructive_count and risk_level.                                  *)
(***************************************************************************)
DestructiveDescriptors(operations) ==
  {i \in 1..Len(operations) : operations[i].destructive}

RiskOf(operations) ==
  IF \E i \in 1..Len(operations) : operations[i].critical THEN "HIGH"
  ELSE IF DestructiveDescriptors(operations) # {} THEN "MEDIUM"
  ELSE "LOW"

\* plan: a stored plan or a PreviewResponse.
FlagsFollowDescriptors(plan) ==
  /\ plan.destructive_count = Cardinality(DestructiveDescriptors(plan.operations))
  /\ plan.risk_level = RiskOf(plan.operations)

IsPreviewResponse(r) == r.tool = "changes.preview" /\ ~IsMutationError(r.body)

\* C21: in every stored plan and every PreviewResponse destructive_count is
\* the number of descriptors with destructive = true and risk_level is HIGH
\* iff a descriptor is critical, else MEDIUM iff one is destructive, else
\* LOW; an ApplyResponse reports the destructive_count and risk_level of
\* the plan it names.
C21_PlanRisk ==
  /\ \A p \in DOMAIN planStore : FlagsFollowDescriptors(planStore[p])
  /\ IsPreviewResponse(response) =>
       /\ FlagsFollowDescriptors(response.body)
       /\ response.body.operations = planStore[response.body.plan_id].operations
  /\ IsApplyResponse(response) =>
       /\ response.body.destructive_count =
            planStore[response.body.plan_id].destructive_count
       /\ response.body.risk_level = planStore[response.body.plan_id].risk_level

\* An apply returned for a plan of three operations, two of them
\* destructive and none critical.
C21_Witness ==
  /\ IsApplyResponse(response)
  /\ Len(planStore[response.body.plan_id].operations) = 3
  /\ response.body.destructive_count = 2
  /\ response.body.risk_level = "MEDIUM"


(***************************************************************************)
(* Target resolution: the resolver on its own, and the targets.resolve     *)
(* tool next to preview and apply.                                         *)
(***************************************************************************)
OpResolve == Operation("op-resolve", "auth", "auth.users.list", JObj(<<>>))

\* AppwriteControlService.resolveTargets: rawInput's members spread over the
\* request the tool builds.
resolveTargets(cfg, w, raw) ==
  LET correlationId == createCorrelationId(w.sequence + 1)
      request == parsePreviewRequest(
                   [RawInput("targets-resolver", raw.targets, <<OpResolve>>)
                    EXCEPT !.target_selector = raw.target_selector])
      answer(resolved) ==
        IF ~resolved.ok
          THEN [correlation_id |-> correlationId, status |-> "FAILED",
                error |-> mapErrorWithTarget(resolved.error, "preview",
                                             correlationId, "targets").error]
          ELSE [correlation_id |-> correlationId, status |-> "SUCCESS",
                resolved_targets |-> SeqMap(ProjectIdOf, resolved.value.resolvedTargets),
                source |-> resolved.value.source]
  IN Returned([w EXCEPT !.sequence = @ + 1],
       IF ~request.ok
         THEN answer(request)
         ELSE answer(resolveRequest(cfg, request.value.targets,
                                    request.value.target_selector)))

Selector(mode, value, values) == [mode |-> mode, value |-> value, values |-> values]

\* Resolver options: no, one or two known projects; no auto targets, one,
\* or a list naming a project twice; with and without a default selector.
TargetAliasMap == ("prod" :> "P_A") @@ ("main" :> "P_A") @@ ("stage" :> "P_B")

TargetConfigs ==
  {[ServiceOptions(FallbackAuth, NoProjectAuth, FALSE)
    EXCEPT !.aliasMap = TargetAliasMap, !.knownProjectIds = known,
           !.autoTargetProjectIds = auto, !.defaultTargetSelector = selector] :
     known \in {<<>>, <<"P_A">>, <<"P_A", "P_B">>},
     auto \in {<<>>, <<"P_B">>, <<"P_B", "P_A", "P_B">>},
     selector \in {Absent, Some(Selector(Some("alias"), Some("stage"), Absent))}}

TargetLists ==
  {<<>>, <<Target("P_A")>>, <<Target("P_B"), Target("P_A")>>,
   <<Target("P_A"), Target("P_B"), Target("P_A")>>,
   <<AliasTarget("prod"), Target("P_B"), AliasTarget("main")>>,
   <<[project_id |-> Some("P_B"), alias |-> Some("prod")]>>,
   <<AliasTarget("nowhere")>>, <<Target("P_A"), AliasTarget("nowhere")>>}

TargetSelectors ==
  {Absent,
   Some(Selector(Some("auto"), Absent, Absent)),
   Some(Selector(Absent, Some("P_A"), Absent)),
   Some(Selector(Some("project_id"), Some("P_B"),
                 Some(<<" P_A ", "P_B", "P_X", " ">>))),
   Some(Selector(Some("project_id"), Some("P_X"), Absent)),
   Some(Selector(Some("project_id"), Absent, Absent)),
   Some(Selector(Some("alias"), Some("prod"), Some(<<"stage", "main", "nowhere">>))),
   Some(Selector(Some("alias"), Some("nowhere"), Absent))}

InitResolve ==
  /\ config \in TargetConfigs
  /\ clock = 1
  /\ sequence = 0
  /\ planStore = <<>>
  /\ auditLog = <<>>
  /\ idempotency = <<>>
  /\ tokens = {}
  /\ adapterCalls = <<>>
  /\ running = [s \in Slots |-> Idle]
  /\ response = NoResponse
  /\ previewed = <<>>
  /\ probe = [stage |-> "none"]

\* TargetResolver.resolveRequest called with targets and targetSelector.
ResolveRequest(targets, targetSelector) ==
  /\ probe' = [stage |-> "resolved", targets |-> targets,
               targetSelector |-> targetSelector,
               result |-> resolveRequest(config, targets, targetSelector)]
  /\ ServiceUnchanged

NextResolve ==
  \E targets \in TargetLists, targetSelector \in TargetSelectors :
    ResolveRequest(targets, targetSelector)

SpecResolve == InitResolve /\ [][NextResolve]_vars

\* The service with the targets.resolve tool.
MaxTargetSequence == 5   \* ids randomId hands out in one run

ToolInputs ==
  {[targets |-> targets, target_selector |-> targetSelector] :
     targets \in {<<>>, <<Target("P_A")>>, <<AliasTarget("prod"), Target("P_A")>>},
     targetSelector \in {Absent, Some(Selector(Some("auto"), Absent, Absent)),
                         Some(Selector(Some("alias"), Some("prod"), Some(<<"main">>)))}}

TargetPool ==
  {RawInput("tester", <<AliasTarget("prod"), Target("P_B"), Target("P_A")>>, <<OpCreate>>),
   [RawInput("tester", <<>>, <<OpCreate>>)
    EXCEPT !.target_selector =
      Some(Selector(Some("alias"), Some("prod"), Some(<<"stage", "main">>)))],
   [RawInput("tester", <<>>, <<OpCreate>>)
    EXCEPT !.target_selector = Some(Selector(Some("auto"), Absent, Absent))]}

TargetsResolve(raw) ==
  /\ sequence + 1 <= MaxTargetSequence
  /\ Commit(resolveTargets(config, World, raw), "targets.resolve", 0)
  /\ UNCHANGED <<config, clock, probe>>

InitTargets ==
  /\ InitResolve

NextTargets ==
  \/ \E raw \in ToolInputs : TargetsResolve(raw)
  \/ \E raw \in TargetPool : PreviewWithin(MaxTargetSequence, MaxExecPlans, raw)
  \/ \E p \in DOMAIN planStore :
       ApplyWithin(MaxTargetSequence, FreeSlot, WithPlan(previewed[p].raw, PlanRef(p)))
  \/ \E slot \in Slots : AdapterReturn(slot)

SpecTargets == InitTargets /\ [][NextTargets]_vars


(***************************************************************************)
(* C22: resolution order.                                                  *)
(***************************************************************************)
Resolved == probe.stage = "resolved"

ResolvedIds == SeqMap(ProjectIdOf, probe.result.value.resolvedTargets)

\* The project a target names by itself: its project_id, else what the
\* alias map holds for its alias.
Named(target) ==
  IF IsPresent(target.project_id) THEN target.project_id
  ELSE IF IsPresent(target.alias) /\ Get(target.alias) \in DOMAIN config.aliasMap
    THEN Some(config.aliasMap[Get(target.alias)])
  ELSE Absent

\* The selector that applies when targets[] is empty.
EffectiveSelector ==
  IF IsPresent(probe.targetSelector) THEN probe.targetSelector
  ELSE config.defaultTargetSelector

ExplicitFirst ==
  Resolved /\ Len(probe.targets) > 0 =>
    IF \A i \in 1..Len(probe.targets) : IsPresent(Named(probe.targets[i]))
      THEN /\ probe.result.ok
           /\ probe.result.value.source = "explicit"
           /\ ResolvedIds = [i \in 1..Len(probe.targets) |-> Get(Named(probe.targets[i]))]
      ELSE /\ ~probe.result.ok
           /\ probe.result.error.code = "TARGET_NOT_FOUND"

SelectorOtherwise ==
  Resolved /\ Len(probe.targets) = 0 =>
    IF IsPresent(EffectiveSelector)
      THEN LET selected == resolveFromSelector(config, Get(EffectiveSelector))
           IN /\ probe.result.ok = selected.ok
              /\ probe.result.ok =>
                   /\ probe.result.value.source = "selector"
                   /\ ResolvedIds = selected.value
              /\ ~probe.result.ok => probe.result.error = selected.error
      ELSE probe.result.ok => probe.result.value.source = "auto"

\* C22: a non-empty targets[] is resolved on its own, each target by its
\* project_id, else by its alias in the alias map, else the whole request
\* fails with TARGET_NOT_FOUND; the source is explicit and the selector does
\* not count.  With an empty targets[] the request's selector, else the
\* configured default selector, is applied with source selector.
C22_ResolutionOrder == ExplicitFirst /\ SelectorOtherwise

\* Explicit targets resolved by project_id and by alias while the request
\* carried a selector that matches other projects.
C22_Witness ==
  /\ Resolved
  /\ probe.targets = <<AliasTarget("prod"), Target("P_B"), AliasTarget("main")>>
  /\ probe.targetSelector = Some(Selector(Some("project_id"), Some("P_X"), Absent))
  /\ probe.result.ok
  /\ probe.result.value.source = "explicit"
  /\ ResolvedIds = <<"P_A", "P_B", "P_A">>


(***************************************************************************)
(* C24: the auto rule.                                                     *)
(***************************************************************************)
\* The auto rule applies: targets[] is empty and the selector that counts is
\* missing or of mode auto (the mode of a selector that names none).
AutoRuleApplies ==
  /\ Resolved
  /\ Len(probe.targets) = 0
  /\ IsPresent(EffectiveSelector) =>
       \/ ~IsPresent(Get(EffectiveSelector).mode)
       \/ Get(EffectiveSelector).mode = Some("auto")

NoRepeats(s) == \A i, j \in 1..Len(s) : s[i] = s[j] => i = j

\* s without its repeats, first occurrences kept in place.
FirstOccurrences(s) ==
  LET IsFirst(i) == \A j \in 1..(i - 1) : s[j] # s[i]
      firsts == {i \in 1..Len(s) : IsFirst(i)}
      nth(k) == CHOOSE i \in firsts : Cardinality({j \in firsts : j < i}) = k - 1
  IN [k \in 1..Cardinality(firsts) |-> s[nth(k)]]

\* C24: the auto rule yields the configured auto targets when there are
\* any, else the one known project when exactly one is known, and else
\* fails with TARGET_AMBIGUOUS; it never returns an empty list.
C24_AutoFailsClosed ==
  AutoRuleApplies =>
    IF Len(config.autoTargetProjectIds) > 0
      THEN /\ probe.result.ok
           /\ ResolvedIds = FirstOccurrences(config.autoTargetProjectIds)
    ELSE IF Len(config.knownProjectIds) = 1
      THEN /\ probe.result.ok
           /\ ResolvedIds = config.knownProjectIds
    ELSE /\ ~probe.result.ok
         /\ probe.result.error.code = "TARGET_AMBIGUOUS"

\* Two projects are known, no auto targets are configured, and a selector
\* of mode auto was refused as ambiguous.
C24_Witness ==
  /\ AutoRuleApplies
  /\ probe.targetSelector = Some(Selector(Some("auto"), Absent, Absent))
  /\ Len(config.knownProjectIds) = 2
  /\ config.autoTargetProjectIds = <<>>
  /\ ~probe.result.ok
  /\ probe.result.error.code = "TARGET_AMBIGUOUS"


(***************************************************************************)
(* C23: order and uniqueness of the resolved targets.                      *)
(***************************************************************************)
\* The calls one apply made for one operation on one project.
CallsOfApply(call) ==
  {i \in 1..Len(adapterCalls) :
     /\ adapterCalls[i].correlation_id = call.correlation_id
     /\ adapterCalls[i].target_project_id = call.target_project_id
     /\ adapterCalls[i].operation.operation_id = call.operation.operation_id}

\* C23: whatever path resolved them, the resolved targets name each project
\* once: the target_projects of a stored plan and the resolved_targets of
\* targets.resolve hold no project twice, and no apply calls the adapter
\* twice for an operation on a project.
C23_TargetsUnique ==
  /\ \A p \in DOMAIN planStore : NoRepeats(planStore[p].target_projects)
  /\ response.tool = "targets.resolve" /\ ~IsMutationError(response.body) =>
       NoRepeats(response.body.resolved_targets)
  /\ \A i \in 1..Len(adapterCalls) : CallsOfApply(adapterCalls[i]) = {i}


(***************************************************************************)
(* C25: targets.resolve without targets and without target_selector.       *)
(***************************************************************************)
NoTargetInput == [targets |-> <<>>, target_selector |-> Absent]

\* The default selector, else the auto rule, applied by the resolver.
DefaultResolution == resolveRequest(config, <<>>, Absent)

\* C25: called with neither targets nor target_selector, targets.resolve
\* answers with what the configured default selector, else the auto rule,
\* resolves to: the project ids with source selector or auto, and a failure
\* only where that rule fails.
C25_ResolveDefaults ==
  LET body == Get(resolveTargets(config, World, NoTargetInput).body)
  IN IF DefaultResolution.ok
       THEN /\ ~IsMutationError(body)
            /\ body.resolved_targets =
                 SeqMap(ProjectIdOf, DefaultResolution.value.resolvedTargets)
            /\ body.source = DefaultResolution.value.source
       ELSE /\ IsMutationError(body)
            /\ body.error.code = DefaultResolution.error.code


(***************************************************************************)
(* The audit sink seen by a client: getAuditRecords hands out an array,    *)
(* which the client may change.                                            *)
(***************************************************************************)
\* InMemoryAuditLogger.list returning its own array.
listShared(log) == [array |-> "records", items |-> log]

\* InMemoryAuditLogger.list: a new array of the stored records.
list(log) == [array |-> "copy", items |-> log]

getAuditRecords(log) == list(log)

ForgedRecord ==
  AuditRecord("intruder", 0, "P_X", "op-x", "success", "corr_forged", Absent)

\* What a client does to an array it holds: pop, overwrite the first
\* element, push.
ListEdits == {"pop", "overwrite", "push"}

EditList(items, edit) ==
  CASE edit = "pop" -> SubSeq(items, 1, Len(items) - 1)
    [] edit = "overwrite" -> [items EXCEPT ![1] = ForgedRecord]
    [] edit = "push" -> Append(items, ForgedRecord)

InitAudit ==
  /\ config = ServiceOptions(FallbackAuth, NoProjectAuth, FALSE)
  /\ clock = 1
  /\ sequence = 0
  /\ planStore = <<>>
  /\ auditLog = <<>>
  /\ idempotency = <<>>
  /\ tokens = {}
  /\ adapterCalls = <<>>
  /\ running = [s \in Slots |-> Idle]
  /\ response = NoResponse
  /\ previewed = <<>>
  /\ probe = [stage |-> "none"]

\* A client calls getAuditRecords and keeps the array; returned is what the
\* call returned, items is the array as the client has it now.
GetAuditRecords ==
  /\ probe' = [stage |-> "listed", array |-> getAuditRecords(auditLog).array,
               returned |-> getAuditRecords(auditLog).items,
               items |-> getAuditRecords(auditLog).items]
  /\ ServiceUnchanged

\* The client changes the array it holds, once per call; what it does to
\* the logger's own array it does to the stored log.
MutateListed(edit) ==
  /\ probe.stage = "listed"
  /\ Len(probe.items) > 0
  /\ probe.items = probe.returned
  /\ probe' = [probe EXCEPT !.items = EditList(@, edit)]
  /\ auditLog' = IF probe.array = "records" THEN EditList(probe.items, edit)
                 ELSE auditLog
  /\ UNCHANGED <<config, clock, sequence, planStore, idempotency, tokens,
                 adapterCalls, running, response, previewed>>

\* One keyed operation for two targets.
ReqAudited == RawInput("tester", <<Target("P_A"), Target("P_B")>>, <<OpUserCreate>>)

NextAudit ==
  \/ PreviewWithin(MaxExecSequence, MaxExecPlans, ReqAudited)
  \/ \E p \in DOMAIN planStore :
       ApplyWithin(MaxExecSequence, FreeSlot, WithPlan(previewed[p].raw, PlanRef(p)))
  \/ \E slot \in Slots : AdapterReturn(slot)
  \/ GetAuditRecords
  \/ \E edit \in ListEdits : MutateListed(edit)

SpecAudit == InitAudit /\ [][NextAudit]_vars

(***************************************************************************)
(* C26: the audit log is append-only.                                      *)
(***************************************************************************)
IsPrefix(s, t) == Len(s) <= Len(t) /\ SubSeq(t, 1, Len(s)) = s

\* No step takes a record out of the log or changes one.
LogOnlyGrows == IsPrefix(auditLog, auditLog')

\* What a getAuditRecords call returned is the start of the log ever after.
ReturnedStays == probe.stage = "listed" => IsPrefix(probe.returned, auditLog)

ApplyIds ==
  {auditLog[i].correlation_id :
     i \in {j \in 1..Len(auditLog) : auditLog[j].outcome # "planned"}}

\* Where the entries an apply wrote are in the log.
WrittenBy(correlationId) ==
  {i \in 1..Len(auditLog) : /\ auditLog[i].correlation_id = correlationId
                            /\ auditLog[i].outcome # "planned"}

\* Its per-operation entries: all but the entries that close a target of an
\* apply without failure, which name "apply" in place of an operation.
EntriesOf(correlationId) ==
  {i \in WrittenBy(correlationId) : auditLog[i].operation_id # "apply"}

\* The k-th smallest element of a set of numbers.
Nth(set, k) == CHOOSE i \in set : Cardinality({j \in set : j < i}) = k - 1

\* The (target, operation) pairs of a plan, targets first.
PairsOf(plan) ==
  [k \in 1..(Len(plan.target_projects) * Len(plan.operations)) |->
     <<plan.target_projects[((k - 1) \div Len(plan.operations)) + 1],
       plan.operations[((k - 1) % Len(plan.operations)) + 1].operation_id>>]

PairOfEntry(i) == <<auditLog[i].target_project, auditLog[i].operation_id>>

PlannedBefore(pair, first) ==
  \E i \in 1..(first - 1) : auditLog[i].outcome = "planned" /\ PairOfEntry(i) = pair

\* C27: for every apply there is a stored plan such that a planned entry
\* for each (target, operation) pair of the plan is in the log before the
\* first entry the apply wrote, and the apply's per-operation entries, each
\* success, failed or skipped under the apply's correlation_id, go through
\* the plan's pairs in target order and, within a target, in operation
\* order; the entries closing the targets come after them.
C27_AuditOrdering ==
  \A c \in ApplyIds :
    \E p \in DOMAIN planStore :
      LET entries == EntriesOf(c)
          closing == WrittenBy(c) \ entries
          pairs == PairsOf(planStore[p])
      IN /\ Cardinality(entries) <= Len(pairs)
         /\ \A k \in 1..Cardinality(entries) :
              /\ PairOfEntry(Nth(entries, k)) = pairs[k]
              /\ auditLog[Nth(entries, k)].outcome \in {"success", "failed", "skipped"}
         /\ \A k \in 1..Len(pairs) : PlannedBefore(pairs[k], Nth(WrittenBy(c), 1))
         /\ \A i \in closing, j \in entries : j < i
         /\ closing # {} => Cardinality(entries) = Len(pairs)

\* An apply over two targets and two operations has written its four
\* entries, a success and a failure among them, after another apply of the
\* same plan had written its own.
C27_Witness ==
  /\ Cardinality(ApplyIds) = 2
  /\ \E c \in ApplyIds :
       /\ Cardinality(EntriesOf(c)) = 4
       /\ {auditLog[i].outcome : i \in EntriesOf(c)} = {"success", "failed", "skipped"}


(***************************************************************************)
(* C28: execution within one apply is sequential.                          *)
(***************************************************************************)
\* The adapter calls of one apply.
CallsOf(correlationId) ==
  {i \in 1..Len(adapterCalls) : adapterCalls[i].correlation_id = correlationId}

Callers == {adapterCalls[i].correlation_id : i \in 1..Len(adapterCalls)}

\* The entries an apply wrote for adapter calls that have returned.
IsAdapterFailure(record) ==
  /\ record.outcome = "failed"
  /\ Get(record.details).error \in
       {normalizeAndRedactError(outcome.error, record.target_project,
                                record.operation_id) :
          outcome \in {o \in AdapterOutcomes(
                         [target_project_id |-> record.target_project,
                          operation |-> [operation_id |-> record.operation_id],
                          correlation_id |-> record.correlation_id]) : ~o.ok}}

Completed(correlationId) ==
  {i \in EntriesOf(correlationId) :
     auditLog[i].outcome = "success" \/ IsAdapterFailure(auditLog[i])}

PairOfCall(i) ==
  <<adapterCalls[i].target_project_id, adapterCalls[i].operation.operation_id>>

\* The place of a (target, operation) pair in the plan's order.
PairIndex(plan, pair) == CHOOSE k \in 1..Len(PairsOf(plan)) : PairsOf(plan)[k] = pair

\* C28: within one apply at most one adapter call is in flight, and the
\* calls are made in the order of (target index, operation index): every
\* call but the apply's last has returned.
C28_Sequential ==
  \A c \in Callers :
    \E p \in DOMAIN planStore :
      /\ \A i \in CallsOf(c) : PairOfCall(i) \in Range(PairsOf(planStore[p]))
      /\ \A i, j \in CallsOf(c) :
           i < j => PairIndex(planStore[p], PairOfCall(i))
                      < PairIndex(planStore[p], PairOfCall(j))
      /\ Cardinality(CallsOf(c)) - Cardinality(Completed(c)) \in {0, 1}
      /\ \A i \in CallsOf(c) :
           PairIndex(planStore[p], PairOfCall(i)) <= Cardinality(EntriesOf(c)) + 1

\* Two applies are waiting for the adapter at once, one of them with its
\* third call.
C28_Witness ==
  /\ \A slot \in Slots : running[slot] # Idle
  /\ \E c \in Callers : Cardinality(CallsOf(c)) = 3
  /\ \A c \in Callers : Cardinality(CallsOf(c)) - Cardinality(Completed(c)) = 1


(***************************************************************************)
(* Remediation of the errors that need an operator's action.               *)
(***************************************************************************)

\* The codes whose errors are to carry a remediation.
RemediationCodes ==
  {"AUTH_CONTEXT_REQUIRED", "MISSING_SCOPE", "CAPABILITY_UNAVAILABLE", "TARGET_AMBIGUOUS"}

\* A remediation that is there and is not the empty string.
HasRemediation(error) == IsPresent(error.remediation) /\ Get(error.remediation) # ""

\* The adapter has returned an error.
AdapterFailed ==
  /\ probe.stage = "returned"
  /\ ~Get(probe.result).ok

\* C29: every error whose code is AUTH_CONTEXT_REQUIRED, MISSING_SCOPE,
\* CAPABILITY_UNAVAILABLE or TARGET_AMBIGUOUS carries a remediation that is not
\* empty, here for the errors the HTTP adapter returns.
C29_RemediationRequired ==
  AdapterFailed =>
    (Get(probe.result).error.code \in RemediationCodes
       => HasRemediation(Get(probe.result).error))


(***************************************************************************)
(* The control service with the HTTP adapter.                              *)
(*                                                                         *)
(* The adapter call an apply is suspended on is executed by               *)
(* HttpAppwriteAdapter: probe holds the adapter, idle or executing the     *)
(* call of the apply in slot 1, and the last call it answered.             *)
(***************************************************************************)
AdapterIdle(options, answered) ==
  [stage |-> "idle", options |-> options, answered |-> answered]

ServiceHttpOptions ==
  {HttpAppwriteAdapterOptions(1, DEFAULT_RETRY_STATUS_CODES),
   HttpAppwriteAdapterOptions(0, {200, 404})}

MaxServiceSequence == 6   \* ids randomId hands out in one run

\* Requests: one whose first operation lacks the user_id the adapter's
\* request needs; one with a target that may lack its api_key; one with a
\* project operation; one that needs a confirmation; one naming an alias
\* that is not mapped; one leaving the targets to the auto rule.
ReqKeyedOne == RawInput("tester", <<Target("P_A")>>, <<OpUserCreate, OpCreate>>)
ReqKeyless == RawInput("tester", <<Target("P_C"), Target("P_A")>>, <<OpCreate>>)
ReqNowhere == RawInput("tester", <<AliasTarget("nowhere")>>, <<OpCreate>>)
ReqAuto ==
  [RawInput("tester", <<>>, <<OpCreate>>)
   EXCEPT !.target_selector = Some(Selector(Some("auto"), Absent, Absent))]

ServicePool ==
  {ReqKeyedOne, ReqKeyless, ReqProjectCreate, ReqProjectDelete, ReqNowhere, ReqAuto}

\* What a client without an issued token submits as confirmation_token.
ServiceTokens == {Absent, Some(<<RawSegment("garbage")>>)}

InitService ==
  /\ config \in ExecConfigs
  /\ clock = 1
  /\ sequence = 0
  /\ planStore = <<>>
  /\ auditLog = <<>>
  /\ idempotency = <<>>
  /\ tokens = {}
  /\ adapterCalls = <<>>
  /\ running = [s \in Slots |-> Idle]
  /\ response = NoResponse
  /\ previewed = <<>>
  /\ probe \in {AdapterIdle(options, Absent) : options \in ServiceHttpOptions}

\* adapter.executeOperation is entered with the input the executor built.
AdapterCalled ==
  /\ running[1] # Idle
  /\ probe.stage = "idle"
  /\ probe' = executeOperation(HttpRun(probe.options, Get(running[1].pending)))
  /\ ServiceUnchanged

\* The await of adapter.executeOperation ends with the adapter's result.
AdapterAnswers ==
  /\ probe.stage = "returned"
  /\ Commit(resume(config, World, running[1], Get(probe.result), now),
            "changes.apply", 1)
  /\ probe' = AdapterIdle(probe.options,
                          Some([input |-> probe.input, result |-> Get(probe.result)]))
  /\ UNCHANGED <<config, clock>>

NextService ==
  \/ \E raw \in ServicePool : PreviewWithin(MaxServiceSequence, MaxExecPlans, raw)
  \/ \E p \in DOMAIN planStore :
       \E ref \in {PlanRef(p)} \cup WrongRefs(p), token \in ServiceTokens :
         ApplyWithin(MaxServiceSequence, 1,
                     [WithPlan(previewed[p].raw, ref) EXCEPT !.confirmation_token = token])
  \/ AdapterCalled
  \/ HttpAttemptEnds
  \/ AdapterAnswers

SpecService == InitService /\ [][NextService]_vars


(***************************************************************************)
(* Retryability.                                                           *)
(***************************************************************************)
\* The errors of the last response: the error of a MutationErrorResponse or
\* the errors of the operation results of an ApplyResponse.
ErrorsReturned ==
  {Get(result.error) : result \in {r \in ResultsReturned : r.status = "FAILED"}}
    \cup (IF IsMutationError(response.body) THEN {response.body.error} ELSE {})

\* The errors the audit log holds.
ErrorsLogged ==
  {Get(auditLog[i].details).error :
     i \in {j \in 1..Len(auditLog) :
              /\ auditLog[j].outcome = "failed"
              /\ IsPresent(auditLog[j].details)
              /\ Get(auditLog[j].details).kind = "error"}}

OnlyInternalRetryable(error) == error.retryable => error.code = "INTERNAL_ERROR"

\* The failed audit records of the call the adapter answered last.
RecordsOfAnswered ==
  LET input == Get(probe.answered).input
  IN {i \in 1..Len(auditLog) :
        /\ auditLog[i].outcome = "failed"
        /\ auditLog[i].correlation_id = input.correlation_id
        /\ auditLog[i].target_project = input.target_project_id
        /\ auditLog[i].operation_id = input.operation.operation_id}

\* C30: in every response of the service with the HTTP adapter, and in every
\* error it logged, an error is retryable only if its code is INTERNAL_ERROR;
\* an error the adapter returned reaches the operation's failure with the
\* adapter's code and the adapter's retryable flag.
C30_Retryability ==
  /\ \A error \in ErrorsReturned \cup ErrorsLogged : OnlyInternalRetryable(error)
  /\ (probe.stage = "idle" /\ IsPresent(probe.answered)
        /\ ~Get(probe.answered).result.ok)
       => /\ RecordsOfAnswered # {}
          /\ \A i \in RecordsOfAnswered :
               LET returned == Get(probe.answered).result.error
                   logged == Get(auditLog[i].details).error
               IN /\ logged.retryable = returned.retryable
                  /\ logged.code = returned.code

\* An apply has returned whose results hold a retryable INTERNAL_ERROR of
\* the adapter and a failure that is not retryable.
C30_Witness ==
  /\ \E result \in ResultsReturned :
       /\ result.status = "FAILED"
       /\ Get(result.error).code = "INTERNAL_ERROR"
       /\ Get(result.error).retryable
  /\ \E result \in ResultsReturned :
       /\ result.status = "FAILED"
       /\ Get(result.error).code # "INTERNAL_ERROR"
       /\ ~Get(result.error).retryable
  /\ probe.stage = "idle" /\ IsPresent(probe.answered)
  /\ ~Get(probe.answered).result.ok


(***************************************************************************)
(* Transport.                                                              *)
(***************************************************************************)
\* parseListCapabilitiesInput: the input may be undefined or an object with
\* an optional transport string.
parseListCapabilitiesInput(raw) ==
  [transport |-> IF IsPresent(raw) THEN Get(raw).transport ELSE Absent]

\* listCapabilities: the capability summary, or the error of the transport
\* check.
listCapabilities(cfg, w, raw) ==
  LET correlationId == createCorrelationId(w.sequence + 1)
      transport == resolveTransport(cfg, parseListCapabilitiesInput(raw).transport)
      drawn == [w EXCEPT !.sequence = @ + 1]
  IN IF transport.ok
       THEN Returned(drawn,
              [correlation_id |-> correlationId, status |-> "SUCCESS",
               capabilities |->
                 [project_enabled |-> cfg.projectManagementAvailable,
                  transport_default |-> cfg.transportDefault,
                  supported_transports |-> cfg.supportedTransports,
                  auto_targeting_enabled |-> TRUE]])
     ELSE LET mapped == mapErrorWithTarget(transport.error, "preview",
                                           correlationId, "capabilities")
          IN Returned(drawn,
               [correlation_id |-> mapped.correlation_id, status |-> mapped.status,
                error |-> mapped.error])

TransportNames == {"stdio", "streamable-http"}

\* Services that differ in the transports: the default, the one the process
\* was started with, and the supported ones.
TransportConfigs ==
  {[ServiceOptions(FallbackAuth, NoProjectAuth, FALSE)
    EXCEPT !.transportDefault = transportDefault,
           !.requestedTransport = requestedTransport,
           !.supportedTransports = supportedTransports] :
     transportDefault \in TransportNames,
     requestedTransport \in {Absent} \cup {Some(t) : t \in TransportNames},
     supportedTransports \in {<<"stdio">>, <<"streamable-http">>,
                              <<"stdio", "streamable-http">>}}

\* What a request names as its transport.
TransportOverrides == {Absent, Some(""), Some("sse")} \cup {Some(t) : t \in TransportNames}

CapabilityInputs == {Absent} \cup {Some([transport |-> t]) : t \in TransportOverrides}

\* Requests naming a transport: for a known project, and for an alias that
\* is not mapped.
TransportPool ==
  {[RawInput("tester", targets, <<OpCreate>>) EXCEPT !.transport = t] :
     targets \in {<<Target("P_A")>>, <<AliasTarget("nowhere")>>},
     t \in TransportOverrides}

MaxTransportSequence == 5   \* ids randomId hands out in one run

InitTransport ==
  /\ config \in TransportConfigs
  /\ clock = 1
  /\ sequence = 0
  /\ planStore = <<>>
  /\ auditLog = <<>>
  /\ idempotency = <<>>
  /\ tokens = {}
  /\ adapterCalls = <<>>
  /\ running = [s \in Slots |-> Idle]
  /\ response = NoResponse
  /\ previewed = <<>>
  /\ probe = <<>>

CapabilitiesList(raw) ==
  /\ sequence + 1 <= MaxTransportSequence
  /\ Commit(listCapabilities(config, World, raw), "capabilities.list", 0)
  /\ UNCHANGED <<config, clock, probe>>

\* The apply inputs for stored plan p: the previewed request with every
\* transport a request can name.
TransportApplyInputs ==
  {[WithPlan(previewed[p].raw, PlanRef(p)) EXCEPT !.transport = t] :
     p \in DOMAIN planStore, t \in TransportOverrides}

NextTransport ==
  \/ \E raw \in CapabilityInputs : CapabilitiesList(raw)
  \/ \E raw \in TransportPool : PreviewWithin(MaxTransportSequence, MaxExecPlans, raw)
  \/ \E raw \in TransportApplyInputs : ApplyWithin(MaxTransportSequence, 1, raw)
  \/ AdapterReturn(1)

SpecTransport == InitTransport /\ [][NextTransport]_vars

\* The transport a request is served on: the request's, else the one the
\* process was started with, else the default.
EffectiveTransport(override) ==
  IF IsPresent(override) THEN Get(override)
  ELSE IF IsPresent(config.requestedTransport) THEN Get(config.requestedTransport)
  ELSE config.transportDefault

Unsupported(override) ==
  EffectiveTransport(override) \notin Range(config.supportedTransports)

\* The invocation ended in CAPABILITY_UNAVAILABLE with the supported
\* transports, and stored no plan and called no adapter.
TransportRefused(out) ==
  /\ RejectedWith(out, {"CAPABILITY_UNAVAILABLE"})
  /\ Get(out.body).status = "FAILED"
  /\ Get(out.body).error.target = "transport"
  /\ Get(out.body).error.supported_transports = Some(config.supportedTransports)
  /\ out.w.planStore = planStore
  /\ out.w.auditLog = auditLog

\* The invocation is suspended on an adapter call, or returned something
\* else than the error of the transport check.
TransportAccepted(out) ==
  (IsPresent(out.body) /\ IsMutationError(Get(out.body))) =>
    /\ Get(out.body).error.target # "transport"
    /\ ~IsPresent(Get(out.body).error.supported_transports)

\* C31: capabilities.list, changes.preview and changes.apply refuse a request
\* whose effective transport (the request's, else the process's, else the
\* default) is not among the supported ones with CAPABILITY_UNAVAILABLE
\* carrying supported_transports, also when the targets would not resolve,
\* storing no plan and calling no adapter; a request on a supported transport
\* is not refused for its transport.
C31_UnsupportedTransport ==
  /\ \A raw \in CapabilityInputs :
       LET out == listCapabilities(config, World, raw)
       IN IF Unsupported(parseListCapabilitiesInput(raw).transport)
            THEN TransportRefused(out)
            ELSE TransportAccepted(out)
  /\ \A raw \in TransportPool :
       LET out == preview(config, World, raw, now)
       IN IF Unsupported(raw.transport) THEN TransportRefused(out)
          ELSE TransportAccepted(out)
  /\ \A raw \in TransportApplyInputs :
       LET out == apply(config, World, raw, now)
       IN IF Unsupported(raw.transport) THEN TransportRefused(out)
          ELSE TransportAccepted(out)

\* An apply of a stored plan was refused for the transport the process was
\* started with, which the request did not override.
C31_Witness ==
  /\ response.tool = "changes.apply"
  /\ IsMutationError(response.body)
  /\ response.body.error.code = "CAPABILITY_UNAVAILABLE"
  /\ response.body.error.supported_transports = Some(<<"stdio">>)
  /\ config.requestedTransport = Some("streamable-http")
  /\ config.transportDefault = "stdio"
  /\ planStore # <<>>
  /\ adapterCalls = <<>>


(***************************************************************************)
(* Startup: the auth file and the environment the service is built from.   *)
(***************************************************************************)
\* An entry of the auth file's projects, under its project id.
ProjectEntry(projectId, aliases, defaultForAuto) ==
  [project_id |-> projectId, aliases |-> aliases, default_for_auto |-> defaultForAuto]

\* The auth file after JSON.parse: projects in the order of the file's
\* keys and defaults.auto_target_project_ids.
ProjectAuthFile(projects, autoTargetProjectIds) ==
  [projects |-> projects, auto_target_project_ids |-> autoTargetProjectIds]

\* An object built by assigning the pairs in order: a later pair replaces
\* an earlier one of the same key.
AssignAll(pairs) ==
  [key \in {pairs[i][1] : i \in 1..Len(pairs)} |->
     pairs[CHOOSE i \in 1..Len(pairs) :
             /\ pairs[i][1] = key
             /\ \A j \in (i + 1)..Len(pairs) : pairs[j][1] # key][2]]

\* parseAliases: the members of the JSON object that are non-empty strings.
parseAliases(rawAliases) ==
  IF ~IsPresent(rawAliases) THEN AssignAll(<<>>)
  ELSE LET IsAlias(pair) == pair[2].t = "str" /\ pair[2].s # ""
           Entry(pair) == <<pair[1], pair[2].s>>
       IN AssignAll(SeqMap(Entry, SeqFilter(IsAlias, Get(rawAliases))))

\* readProjectAuthFile from the schema check on.
readProjectAuthFile(authFile) ==
  LET ids == [i \in 1..Len(authFile.projects) |-> authFile.projects[i].project_id]
      AliasesOf(entry) ==
        [k \in 1..Len(entry.aliases) |-> <<entry.aliases[k], entry.project_id>>]
      fileAliases == AssignAll(Flatten(SeqMap(AliasesOf, authFile.projects)))
      IsCandidate(entry) == entry.default_for_auto
      Id(entry) == entry.project_id
      autoCandidates == SeqMap(Id, SeqFilter(IsCandidate, authFile.projects))
      autoTargetProjectIds ==
        IF IsPresent(authFile.auto_target_project_ids)
             /\ Len(Get(authFile.auto_target_project_ids)) > 0
          THEN Get(authFile.auto_target_project_ids)
          ELSE autoCandidates
  IN IF Len(authFile.projects) = 0
       THEN Throw("APPWRITE_PROJECT_AUTH_FILE schema invalid at projects: "
                    \o "projects must include at least one project entry")
     ELSE IF \E i \in 1..Len(autoTargetProjectIds) :
               autoTargetProjectIds[i] \notin Range(ids)
       THEN Throw("APPWRITE_PROJECT_AUTH_FILE defaults.auto_target_project_ids "
                    \o "includes unknown project")
     ELSE IF \E alias \in DOMAIN fileAliases : fileAliases[alias] \notin Range(ids)
       THEN Throw("APPWRITE_PROJECT_AUTH_FILE alias points to unknown project")
     ELSE Ok([projectAuthContexts |-> [p \in Range(ids) |-> FallbackAuth],
              fileAliases |-> fileAliases,
              knownProjectIds |-> ids,
              autoTargetProjectIds |-> autoTargetProjectIds])

\* buildAppwriteControlService: the options the service is constructed with.
buildAppwriteControlService(authFile, targetAliases) ==
  LET loadedAuth == readProjectAuthFile(authFile)
  IN IF ~loadedAuth.ok THEN loadedAuth
     ELSE Ok([ServiceOptions(FallbackAuth, loadedAuth.value.projectAuthContexts, FALSE)
              EXCEPT !.knownProjectIds = loadedAuth.value.knownProjectIds,
                     !.autoTargetProjectIds = loadedAuth.value.autoTargetProjectIds,
                     !.aliasMap = parseAliases(targetAliases)
                                    @@ loadedAuth.value.fileAliases])

\* Auth files: no project, one, or two; aliases none, one each, or one
\* alias given to both projects; with and without default_for_auto; the
\* auto targets not given, empty, known, or naming a project not in the file.
AuthFiles ==
  {ProjectAuthFile(projects, auto) :
     projects \in {<<>>}
       \cup {<<ProjectEntry("P_A", aliases, flag)>> :
               aliases \in {<<>>, <<"prod">>}, flag \in BOOLEAN}
       \cup {<<ProjectEntry("P_A", aliases, flag), ProjectEntry("P_B", <<"prod">>, FALSE)>> :
               aliases \in {<<>>, <<"prod", "main">>}, flag \in BOOLEAN},
     auto \in {Absent, Some(<<>>), Some(<<"P_A">>), Some(<<"P_A", "P_X">>)}}

\* APPWRITE_MCP_TARGET_ALIASES after JSON.parse: not set, an alias for a
\* project of the file, an alias for a project that is not in the file, an
\* alias of the file pointed elsewhere, and members that are not aliases.
TargetAliasSettings ==
  {Absent,
   Some(<< <<"main", JStr("P_A")>> >>),
   Some(<< <<"ext", JStr("P_X")>> >>),
   Some(<< <<"prod", JStr("P_X")>>, <<"n", JNum(1)>>, <<"e", JStr("")>> >>)}

StartupTargets ==
  {<<>>, <<AliasTarget("prod")>>, <<AliasTarget("ext")>>, <<AliasTarget("main")>>}

StartupSelectors ==
  {Absent, Some(Selector(Some("auto"), Absent, Absent)),
   Some(Selector(Some("alias"), Some("prod"), Some(<<"ext", "main">>)))}

InitStartup ==
  /\ config = PureConfig
  /\ clock = 1
  /\ sequence = 0
  /\ planStore = <<>>
  /\ auditLog = <<>>
  /\ idempotency = <<>>
  /\ tokens = {}
  /\ adapterCalls = <<>>
  /\ running = [s \in Slots |-> Idle]
  /\ response = NoResponse
  /\ previewed = <<>>
  /\ probe \in {[stage |-> "starting", authFile |-> authFile,
                 targetAliases |-> targetAliases] :
                  authFile \in AuthFiles, targetAliases \in TargetAliasSettings}

\* buildAppwriteControlService returns the service or throws.
Startup ==
  /\ probe.stage = "starting"
  /\ LET built == buildAppwriteControlService(probe.authFile, probe.targetAliases)
     IN /\ config' = IF built.ok THEN built.value ELSE config
        /\ probe' = [stage |-> IF built.ok THEN "started" ELSE "failed",
                     authFile |-> probe.authFile,
                     targetAliases |-> probe.targetAliases]
  /\ UNCHANGED <<clock, sequence, planStore, auditLog, idempotency, tokens,
                 adapterCalls, running, response, previewed>>

\* The started service resolves the targets of a request.
ResolveStarted(targets, targetSelector) ==
  /\ probe.stage \in {"started", "resolved"}
  /\ probe' = [stage |-> "resolved", authFile |-> probe.authFile,
               targetAliases |-> probe.targetAliases,
               targets |-> targets, targetSelector |-> targetSelector,
               result |-> resolveRequest(config, targets, targetSelector)]
  /\ ServiceUnchanged

NextStartup ==
  \/ Startup
  \/ \E targets \in StartupTargets, targetSelector \in StartupSelectors :
       ResolveStarted(targets, targetSelector)

SpecStartup == InitStartup /\ [][NextStartup]_vars

\* The project ids of the auth file.
FileProjectIds ==
  {probe.authFile.projects[i].project_id : i \in 1..Len(probe.authFile.projects)}

\* C32: the service starts only if every auto target and every alias of the
\* effective alias map (the file's aliases merged with the ones of
\* APPWRITE_MCP_TARGET_ALIASES) names a project of the auth file, so that
\* alias and auto resolution of the started service yield projects of the
\* file only.
C32_StartupValidatesTargets ==
  /\ probe.stage \in {"started", "resolved"} =>
       /\ \A i \in 1..Len(config.autoTargetProjectIds) :
            config.autoTargetProjectIds[i] \in FileProjectIds
       /\ \A alias \in DOMAIN config.aliasMap : config.aliasMap[alias] \in FileProjectIds
  /\ (probe.stage = "resolved" /\ probe.result.ok) =>
       \A i \in 1..Len(probe.result.value.resolvedTargets) :
         probe.result.value.resolvedTargets[i].project_id \in FileProjectIds


(***************************************************************************)
(* auth.users.update: the legacy action and the explicit ones.             *)
(***************************************************************************)
\* The explicit action of a field of UserUpdateFields.
ExplicitAction(field) ==
  CASE field = "emailVerification" -> "auth.users.update.email_verification"
    [] field = "phoneVerification" -> "auth.users.update.phone_verification"
    [] OTHER -> "auth.users.update." \o field

\* A value of the type the field accepts.
AcceptedValue(type) ==
  CASE type = "str" -> JStr("v")
    [] type = "bool" -> JBool(TRUE)
    [] type = "arr" -> JArr(<<JStr("vip")>>)
    [] type = "obj" -> JObj(<<>>)

UserFieldIndexes == 1..Len(UserUpdateFields)

\* A params member for field i: of the accepted type, or a number.
UserFieldEntries(i) ==
  {<<UserUpdateFields[i][2], value>> :
     value \in {AcceptedValue(UserUpdateFields[i][3]), JNum(1)}}

\* params with user_id and no, one or two of the fields, the later field
\* of the precedence written first; and the same without user_id.
UserUpdateParams ==
  LET user == <<"user_id", JStr("u1")>>
      fields == {<<>>}
                  \cup UNION {{<<e>> : e \in UserFieldEntries(i)} : i \in UserFieldIndexes}
                  \cup UNION {{<<later, earlier>> :
                                 earlier \in UserFieldEntries(i),
                                 later \in UserFieldEntries(j)} :
                                <<i, j>> \in {p \in UserFieldIndexes \X UserFieldIndexes :
                                                p[1] < p[2]}}
  IN {JObj(<<user>> \o f) : f \in fields}
       \cup {JObj(f) : f \in {g \in fields : Len(g) = 1}}

UserUpdateOperations ==
  {Operation("op-u", "auth", action, params) :
     action \in UserUpdateActions, params \in UserUpdateParams}

InitUsers ==
  /\ config = PureConfig
  /\ clock = 1
  /\ sequence = 0
  /\ planStore = <<>>
  /\ auditLog = <<>>
  /\ idempotency = <<>>
  /\ tokens = {}
  /\ adapterCalls = <<>>
  /\ running = [s \in Slots |-> Idle]
  /\ response = NoResponse
  /\ previewed = <<>>
  /\ probe \in {HttpRun(HttpAppwriteAdapterOptions(0, DEFAULT_RETRY_STATUS_CODES),
                        AdapterInput("P_A", operation, FallbackAuth, "corr-1")) :
                  operation \in UserUpdateOperations}

SpecUsers == InitUsers /\ [][NextHttp]_vars

\* The fields whose member in the params is of the accepted type, in the
\* order of the precedence.
Recognized(params) ==
  SeqFilter(LAMBDA field : Member(params, field[2]).t = field[3], UserUpdateFields)

\* The request of the explicit action of the field with the same params.
ExplicitRequest(field, operation) ==
  buildRequest([operation EXCEPT !.action = ExplicitAction(field)])

\* executeOperation ended in VALIDATION_ERROR before any request was sent.
RefusedUnsent ==
  /\ probe.stage = "returned"
  /\ ~Get(probe.result).ok
  /\ Get(probe.result).error.code = "VALIDATION_ERROR"
  /\ probe.attempt = 0
  /\ probe.attempts = <<>>
  /\ probe.request = Absent

\* The request sent is the one of the explicit action of the field: its
\* method, its path and a body of the one member.
SentAs(field, operation) ==
  /\ probe.attempt >= 1
  /\ ExplicitRequest(field[1], operation).ok
  /\ probe.request = Some(ExplicitRequest(field[1], operation).value)
  /\ Get(probe.request).method = field[4]
  /\ Get(probe.request).path = "users/u1" \o field[5]
  /\ Get(probe.request).payload =
       [body |-> JObj(<< <<field[6], Member(operation.params, field[2])>> >>)]

\* C33: for params holding user_id, auth.users.update sends the request of
\* the explicit action of the first field, in the order email, name, status,
\* password, phone, emailVerification, phoneVerification, mfa, labels, prefs,
\* whose member is of the accepted type (the only one when there is one); an
\* explicit action sends the request of its own field; auth.users.update
\* without such a field and an explicit action whose field is missing or of
\* another type end in VALIDATION_ERROR with no request sent.
C33_LegacyAlias ==
  probe.stage # "input" =>
    LET operation == probe.input.operation
        recognized == Recognized(operation.params)
        expectedField == UserUpdateField(operation.action)
        own == SeqFilter(LAMBDA field : field[1] = expectedField, recognized)
    IN IF Member(operation.params, "user_id").t # "str" THEN RefusedUnsent
       ELSE IF expectedField = "auto"
         THEN IF recognized = <<>> THEN RefusedUnsent
              ELSE SentAs(recognized[1], operation)
       ELSE IF own = <<>> THEN RefusedUnsent
       ELSE SentAs(own[1], operation)

\* auth.users.update with a name and, written before it, an email was sent
\* as the request of auth.users.update.email and answered.
C33_Witness ==
  /\ probe.stage = "returned"
  /\ probe.input.operation.action = "auth.users.update"
  /\ Len(Recognized(probe.input.operation.params)) = 2
  /\ probe.input.operation.params.entries[2][1] = "name"
  /\ Get(probe.request).path = "users/u1/email"
  /\ Get(probe.result).ok


(***************************************************************************)
(* Backoff: the delays the adapter sleeps between the attempts.            *)
(***************************************************************************)
RECURSIVE PowerOfTwo(_)
PowerOfTwo(n) == IF n = 0 THEN 1 ELSE 2 * PowerOfTwo(n - 1)

Smaller(a, b) == IF a < b THEN a ELSE b
Larger(a, b) == IF a > b THEN a ELSE b

\* The local base of retryDelayMs: the doubled delay, capped.
cappedDelayMs(adapter, attempt) ==
  Smaller(adapter.retryBaseDelayMs * PowerOfTwo(Larger(0, attempt - 1)),
          adapter.retryMaxDelayMs)

\* The values Math.floor(Math.random() * Math.max(1, Math.floor(base * 0.25)))
\* can take.
Jitters(adapter, attempt) ==
  0..(Larger(1, cappedDelayMs(adapter, attempt) \div 4) - 1)

\* retryDelayMs for a value of the jitter.
retryDelayMs(adapter, attempt, jitter) == cappedDelayMs(adapter, attempt) + jitter

MaxBaseDelayMs == 8   \* largest retryBaseDelayMs of the model
MaxBackoffRetries == 3   \* largest maxRetries of the backoff model

\* Adapters as parseHttpAdapterRuntimeConfig lets them be: positive delays,
\* the largest not below the base.
BackoffAdapters ==
  {[retryBaseDelayMs |-> base, retryMaxDelayMs |-> base * factor,
    maxRetries |-> maxRetries] :
     base \in 1..MaxBaseDelayMs, factor \in {1, 2, 5},
     maxRetries \in 1..MaxBackoffRetries}

InitBackoff ==
  /\ config = PureConfig
  /\ clock = 1
  /\ sequence = 0
  /\ planStore = <<>>
  /\ auditLog = <<>>
  /\ idempotency = <<>>
  /\ tokens = {}
  /\ adapterCalls = <<>>
  /\ running = [s \in Slots |-> Idle]
  /\ response = NoResponse
  /\ previewed = <<>>
  /\ probe \in {[adapter |-> adapter, attempt |-> 1, delays |-> <<>>] :
                  adapter \in BackoffAdapters}

\* An attempt that may be repeated has failed: the adapter sleeps
\* retryDelayMs(attempt) and goes on to the next attempt.
RetrySleep ==
  /\ probe.attempt < probe.adapter.maxRetries + 1
  /\ \E jitter \in Jitters(probe.adapter, probe.attempt) :
       probe' = [probe EXCEPT
                   !.delays = Append(@, retryDelayMs(probe.adapter, probe.attempt, jitter)),
                   !.attempt = @ + 1]
  /\ ServiceUnchanged

NextBackoff == RetrySleep

SpecBackoff == InitBackoff /\ [][NextBackoff]_vars

\* C34: the delay slept after attempt n is at least
\* min(base * 2^(n-1), max_delay) and less than that value plus a quarter of
\* base, base being retryBaseDelayMs.
C34_BackoffBound ==
  \A n \in 1..Len(probe.delays) :
    LET floorMs == Smaller(probe.adapter.retryBaseDelayMs * PowerOfTwo(n - 1),
                           probe.adapter.retryMaxDelayMs)
    IN /\ probe.delays[n] >= floorMs
       /\ 4 * (probe.delays[n] - floorMs) < probe.adapter.retryBaseDelayMs


(***************************************************************************)
(* Idempotency while applies run side by side.                             *)
(***************************************************************************)
\* The (project_id, action, idempotency_key) of an adapter call of a keyed
\* operation.
KeyOfCall(call) ==
  <<call.target_project_id, call.operation.action, call.operation.idempotency_key>>

KeyedCalls ==
  {i \in 1..Len(adapterCalls) : IsPresent(adapterCalls[i].operation.idempotency_key)}

\* The adapter calls of a key that have returned a failure.
FailedCallsOf(key) ==
  {i \in 1..Len(auditLog) :
     /\ IsAdapterFailure(auditLog[i])
     /\ \E c \in KeyedCalls :
          /\ KeyOfCall(adapterCalls[c]) = key
          /\ adapterCalls[c].correlation_id = auditLog[i].correlation_id
          /\ adapterCalls[c].target_project_id = auditLog[i].target_project
          /\ adapterCalls[c].operation.operation_id = auditLog[i].operation_id}

\* C35: an operation with an idempotency_key is dispatched to the adapter at
\* most once per (project_id, action, idempotency_key), also when two applies
\* of the plan are in flight at once: a key has one call more than it has
\* calls that failed, at most.
C35_ConcurrentIdempotency ==
  \A c \in KeyedCalls :
    LET key == KeyOfCall(adapterCalls[c])
    IN Cardinality({d \in KeyedCalls : KeyOfCall(adapterCalls[d]) = key})
         <= Cardinality(FailedCallsOf(key)) + 1


(***************************************************************************)
(* Result alignment.                                                       *)
(***************************************************************************)
\* The keyed operation under another operation_id.
OpUserAgain == [OpUserCreate EXCEPT !.operation_id = "op-user-again"]

\* Requests: a keyed operation followed by an unkeyed one; the keyed
\* operation twice under two operation ids; the keyed operation under the
\* second id alone.
ReqKeyedTwice == RawInput("tester", <<Target("P_A")>>, <<OpUserCreate, OpUserAgain>>)
ReqRenamed == RawInput("tester", <<Target("P_A"), Target("P_B")>>, <<OpUserAgain, OpCreate>>)

AlignPool == {ReqKeyedOne, ReqKeyedTwice, ReqRenamed}

MaxAlignPlans == 2   \* previews stored in one run of the alignment model
MaxAlignSequence == 8   \* ids randomId hands out in one run

InitAlign ==
  /\ config = ServiceOptions(FallbackAuth, NoProjectAuth, FALSE)
  /\ clock = 1
  /\ sequence = 0
  /\ planStore = <<>>
  /\ auditLog = <<>>
  /\ idempotency = <<>>
  /\ tokens = {}
  /\ adapterCalls = <<>>
  /\ running = [s \in Slots |-> Idle]
  /\ response = NoResponse
  /\ previewed = <<>>
  /\ probe = <<>>

NextAlign ==
  \/ \E raw \in AlignPool : PreviewWithin(MaxAlignSequence, MaxAlignPlans, raw)
  \/ \E p \in DOMAIN planStore :
       ApplyWithin(MaxAlignSequence, 1, WithPlan(previewed[p].raw, PlanRef(p)))
  \/ AdapterReturn(1)

SpecAlign == InitAlign /\ [][NextAlign]_vars

\* C36: in every ApplyResponse each target's operations are as many as the
\* request's operations, and the j-th entry carries the operation_id of the
\* j-th request operation, also when it was served from the idempotency
\* cache.
C36_ResultAlignment ==
  IsApplyResponse(response) =>
    LET operations == previewed[response.body.plan_id].raw.operations
    IN \A t \in 1..Len(response.body.target_results) :
         LET entries == response.body.target_results[t].operations
         IN /\ Len(entries) = Len(operations)
            /\ \A j \in 1..Len(operations) :
                 entries[j].operation_id = operations[j].operation_id


(***************************************************************************)
(* Plans and tokens used more than once: a critical request, previewed     *)
(* (also twice), confirmation tokens issued before and after the preview,  *)
(* and applies of the stored plans repeated as often as the ids allow.     *)
(***************************************************************************)
MaxReuseSequence == 7  \* ids randomId hands out in one run
MaxReusePlans == 2     \* previews stored in one run
MaxReuseTokens == 1    \* confirmation tokens issued in one run

\* A destructive operation for two targets: critical by inference.
ReqDeleteEach ==
  RawInput("tester", <<Target("P_A"), Target("P_B")>>, <<OpDeleteCollection>>)

ReusePool == {ReqDeleteEach}

ReuseConfig == ServiceOptions(FallbackAuth, NoProjectAuth, TRUE)

\* The plan_hash a preview of raw returns.
PlanHashOf(raw) == Get(preview(config, World, raw, now).body).plan_hash

\* confirm.issue for the hash of a request of the pool, previewed or not.
ReuseIssueInputs ==
  {[plan_hash |-> PlanHashOf(raw), ttl_seconds |-> Some(MinTokenTtlSeconds)] :
     raw \in ReusePool}

\* The previewed request with its plan reference and a token issued earlier.
ReuseApplyInput(p, token) ==
  [WithPlan(previewed[p].raw, PlanRef(p)) EXCEPT !.confirmation_token = token]

InitReuse ==
  /\ config = ReuseConfig
  /\ clock = 1
  /\ sequence = 0
  /\ planStore = <<>>
  /\ auditLog = <<>>
  /\ idempotency = <<>>
  /\ tokens = {}
  /\ adapterCalls = <<>>
  /\ running = [s \in Slots |-> Idle]
  /\ response = NoResponse
  /\ previewed = <<>>
  /\ probe = <<>>

IssueWithin(maxSequence, maxTokens, raw) ==
  /\ sequence + 1 <= maxSequence
  /\ Cardinality(tokens) < maxTokens
  /\ Commit(issueConfirmationToken(config, World, raw, now), "confirm.issue", 0)
  /\ UNCHANGED <<config, clock, probe>>

ReuseIssue(raw) == IssueWithin(MaxReuseSequence, MaxReuseTokens, raw)

NextReuse ==
  \/ \E raw \in ReusePool : PreviewWithin(MaxReuseSequence, MaxReusePlans, raw)
  \/ \E raw \in ReuseIssueInputs : ReuseIssue(raw)
  \/ \E p \in DOMAIN planStore, t \in tokens :
       ApplyWithin(MaxReuseSequence, 1, ReuseApplyInput(p, Some(t)))
  \/ AdapterReturn(1)
  \/ Tick

SpecReuse == InitReuse /\ [][NextReuse]_vars

\* The claims a token issued by the service carries.
TokenClaims(token) == ParsePayload(token[1]).value

\* now is before the plan's expires_at and the token's expiry.
InTime(plan, token) ==
  /\ now < plan.expires_at
  /\ now \div 1000 < TokenClaims(token).exp

GateCodes == {"PLAN_MISMATCH", "CONFIRM_REQUIRED", "INVALID_CONFIRM_TOKEN"}

\* The apply of plan p with the token passes the plan check and the
\* confirmation gate.
PassesGate(p, token) ==
  LET checks == applyChecks(config, planStore, ReuseApplyInput(p, Some(token)),
                            now, sequence + 2)
  IN checks.ok \/ checks.error.code \notin GateCodes

\* The applies that got as far as the adapter, by their correlation ids.
AppliesDispatched == {adapterCalls[i].correlation_id : i \in DOMAIN adapterCalls}

\* No step takes a plan out of the plan store or changes a stored plan.
PlansKept ==
  \A p \in DOMAIN planStore : p \in DOMAIN planStore' /\ planStore'[p] = planStore[p]

\* An apply of a stored plan with a token issued for the plan's hash passes
\* the plan check and the confirmation gate while both are in time.
GateStaysOpen ==
  \A p \in DOMAIN planStore : \A token \in tokens :
    (TokenClaims(token).plan_hash = planStore[p].plan_hash
       /\ InTime(planStore[p], token))
      => PassesGate(p, token)

\* C37: neither a plan nor a token is consumed by use.  No step, an apply
\* that succeeded, partly succeeded or failed included, removes or changes a
\* stored plan; and in every state, whatever applies ran before, an apply of
\* a stored plan with a token issued for the plan's hash passes the plan
\* check and the confirmation gate while now is before the plan's
\* expires_at and the token's expiry.  This holds for every stored plan of
\* that hash and for tokens issued before the plan was stored.
C37_NotConsumed == []GateStaysOpen /\ [][PlansKept]_vars

\* Two applies of a critical plan reached the adapter and returned, the
\* token they carried was issued before the plan was created, plan and
\* token are still in time and a third apply would pass again.
C37_Witness ==
  /\ Cardinality(AppliesDispatched) >= 2
  /\ running[1] = Idle
  /\ response.tool = "changes.apply"
  /\ \E p \in DOMAIN planStore, token \in tokens :
       /\ TokenClaims(token).plan_hash = planStore[p].plan_hash
       /\ TokenClaims(token).exp * 1000
            < planStore[p].created_at + MinTokenTtlSeconds * 1000
       /\ InTime(planStore[p], token)
       /\ PassesGate(p, token)


(***************************************************************************)
(* What the idempotency registry holds.                                    *)
(***************************************************************************)
\* Every stored result is a SUCCESS result.
CacheOnlySuccess ==
  \A key \in DOMAIN idempotency : idempotency[key].status = "SUCCESS"

\* The audit records of operations the adapter carried out.
SuccessRecords(log) == {i \in 1..Len(log) : log[i].outcome = "success"}

\* A step in which no operation succeeded (a failed dispatch, an operation
\* rejected by preflight, a cache hit) leaves the registry as it was.
FailureLeavesCache ==
  Cardinality(SuccessRecords(auditLog')) = Cardinality(SuccessRecords(auditLog))
    => idempotency' = idempotency

\* An entry, once stored, is neither removed nor replaced.
CacheKept ==
  \A key \in DOMAIN idempotency :
    key \in DOMAIN idempotency' /\ idempotency'[key] = idempotency[key]

\* C38: the idempotency cache only ever holds SUCCESS results; a step in
\* which a dispatch fails or an operation is rejected by preflight leaves
\* the cache unchanged; and once an entry is stored for a key it is never
\* replaced or removed.
C38_CacheOnlySuccess ==
  []CacheOnlySuccess /\ [][FailureLeavesCache /\ CacheKept]_vars


(***************************************************************************)
(* No fail-fast, no rollback.                                              *)
(***************************************************************************)
\* The audit records of failed operations of the apply with this
\* correlation id.
FailuresOf(correlationId) ==
  {i \in 1..Len(auditLog) :
     /\ auditLog[i].correlation_id = correlationId
     /\ auditLog[i].outcome = "failed"}

\* The response reports one result per operation of the plan for every
\* target of the plan.
OneResultEach(body) ==
  /\ ~IsMutationError(body)
  /\ Len(body.target_results) = Len(planStore[body.plan_id].target_projects)
  /\ \A t \in 1..Len(body.target_results) :
       Len(body.target_results[t].operations)
         = Len(planStore[body.plan_id].operations)

\* The adapter calls of an apply that were answered with success are all
\* reported as SUCCESS results of their target.
SucceededStay(body) ==
  \A i \in 1..Len(auditLog) :
    (auditLog[i].correlation_id = body.correlation_id
       /\ auditLog[i].outcome = "success" /\ auditLog[i].operation_id # "apply")
      => \E t \in 1..Len(body.target_results) :
           /\ body.target_results[t].project_id = auditLog[i].target_project
           /\ \E o \in 1..Len(body.target_results[t].operations) :
                /\ body.target_results[t].operations[o].operation_id
                     = auditLog[i].operation_id
                /\ body.target_results[t].operations[o].status = "SUCCESS"

\* C39: no fail-fast and no rollback.  An apply in which an operation
\* failed on a target (preflight or adapter failure) still processes every
\* later operation and target: its response carries one result per request
\* operation for every target, and the operations that succeeded are
\* reported as such.
C39_NoFailFast ==
  (response.tool = "changes.apply"
     /\ FailuresOf(response.body.correlation_id) # {})
    => (OneResultEach(response.body) /\ SucceededStay(response.body))


(***************************************************************************)
(* The order of the checks of apply: a critical request previewed under    *)
(* four configurations, and applies in which several checks fail at once.  *)
(***************************************************************************)
MaxOrderSequence == 5  \* ids randomId hands out in one run
MaxOrderPlans == 1     \* previews stored in one run
MaxOrderTokens == 1    \* confirmation tokens issued in one run

\* A complete fallback context; none; one that lacks the plan's scopes; a
\* per-project map beside a fallback context that is not configured.
OrderConfigs ==
  {ServiceOptions(FallbackAuth, NoProjectAuth, FALSE),
   ServiceOptions(AuthContext(Absent, Absent, AllScopes), NoProjectAuth, FALSE),
   ServiceOptions(AuthContext(FallbackAuth.endpoint, FallbackAuth.api_key,
                              <<"users.read">>),
                  NoProjectAuth, FALSE),
   ServiceOptions(AuthContext(Absent, Absent, NoScopes),
                  ("P_A" :> FileAuthA) @@ ("P_B" :> EmptyScopesAuth), FALSE)}

\* The previewed request as it is, without targets, and with a target no
\* alias names.
OrderShapes(raw) ==
  {raw, [raw EXCEPT !.targets = <<>>],
   [raw EXCEPT !.targets = <<AliasTarget("nowhere")>>]}

\* The apply inputs for stored plan p: every shape, with and without a
\* supported transport, the right and an altered plan_hash, and no token,
\* an issued one or a made-up one.
OrderInputsFor(p) ==
  {[WithPlan(shape, ref) EXCEPT !.transport = transport,
                                !.confirmation_token = token] :
     shape \in OrderShapes(previewed[p].raw),
     ref \in {PlanRef(p), <<Some(p), Some(TamperedHash(planStore[p].plan_hash))>>},
     transport \in {Absent, Some("streamable-http")},
     token \in {Absent, Some(<<RawSegment("garbage")>>)}
                 \cup {Some(t) : t \in tokens}}

OrderInputs == UNION {OrderInputsFor(p) : p \in DOMAIN planStore}

InitOrder ==
  /\ config \in OrderConfigs
  /\ clock = 1
  /\ sequence = 0
  /\ planStore = <<>>
  /\ auditLog = <<>>
  /\ idempotency = <<>>
  /\ tokens = {}
  /\ adapterCalls = <<>>
  /\ running = [s \in Slots |-> Idle]
  /\ response = NoResponse
  /\ previewed = <<>>
  /\ probe = <<>>

NextOrder ==
  \/ PreviewWithin(MaxOrderSequence, MaxOrderPlans, ReqDeleteEach)
  \/ \E raw \in ReuseIssueInputs : IssueWithin(MaxOrderSequence, MaxOrderTokens, raw)
  \/ \E raw \in OrderInputs : ApplyWithin(MaxOrderSequence, 1, raw)
  \/ AdapterReturn(1)
  \/ Tick

SpecOrder == InitOrder /\ [][NextOrder]_vars

\* The checks of apply, each taken by itself.
SchemaFails(raw) == ~parseApplyRequest(raw).ok

TransportFails(raw) == ~resolveTransport(config, raw.transport).ok

TargetsFail(raw) == ~resolveRequest(config, raw.targets, raw.target_selector).ok

PlanFails(raw) == ~PlanCheck(raw).ok

AuthFails ==
  ~hasPerProjectAuthContexts(config) /\ ~ensureAuthContext(config.authContext).ok

ScopesFail(raw) ==
  /\ ~hasPerProjectAuthContexts(config)
  /\ ~preflightScopes(planStore[Get(raw.plan_id)].required_scopes,
                      config.authContext.scopes).ok

\* The confirmation gate for the stored plan the input names by plan_id.
Confirmation(raw) ==
  enforceDestructivePolicy(config, planStore[Get(raw.plan_id)],
                           raw.confirmation_token, now)

\* The codes of the first check that fails, in the order schema, transport,
\* targets, plan, auth context, scopes, confirmation; empty if none fails.
FirstFailure(raw) ==
  IF SchemaFails(raw) THEN {"VALIDATION_ERROR"}
  ELSE IF TransportFails(raw) THEN {"CAPABILITY_UNAVAILABLE"}
  ELSE IF TargetsFail(raw) THEN {"TARGET_NOT_FOUND", "TARGET_AMBIGUOUS"}
  ELSE IF PlanFails(raw) THEN {"PLAN_MISMATCH"}
  ELSE IF AuthFails THEN {"AUTH_CONTEXT_REQUIRED"}
  ELSE IF ScopesFail(raw) THEN {"MISSING_SCOPE"}
  ELSE IF ~Confirmation(raw).ok THEN {"CONFIRM_REQUIRED", "INVALID_CONFIRM_TOKEN"}
  ELSE {}

\* The apply got past its checks: it is suspended on the adapter or
\* returned an ApplyResponse.
Executes(out) == IsPresent(out.body) => ~IsMutationError(Get(out.body))

\* C40: the checks of apply run in the order input schema, transport,
\* target resolution, plan match, request-level auth context and scopes
\* (only without a per-project map), confirmation, and the response reports
\* the first one that fails; an apply with a wrong plan_hash and a missing or
\* invalid token returns PLAN_MISMATCH, whatever the token is.
C40_CheckOrder ==
  \A raw \in OrderInputs :
    LET Holds(out) ==
          IF FirstFailure(raw) = {} THEN Executes(out)
          ELSE RejectedWith(out, FirstFailure(raw))
    IN Holds(apply(config, World, raw, now))

\* An apply of a critical plan with an altered plan_hash and no token, that
\* passes schema, transport and target resolution, was answered with
\* PLAN_MISMATCH, although the confirmation gate would refuse it as well.
C40_Witness ==
  /\ response.tool = "changes.apply"
  /\ IsMutationError(response.body)
  /\ response.body.error.code = "PLAN_MISMATCH"
  /\ response.body.error.message = "plan_hash mismatch"
  /\ \E raw \in OrderInputs :
       /\ ReachesPlanCheck(raw)
       /\ PlanFails(raw)
       /\ raw.confirmation_token = Absent
       /\ ~Confirmation(raw).ok
       /\ RejectedWith(apply(config, World, raw, now), {"PLAN_MISMATCH"})

====
